---- MODULE Spec2Model ----
(***************************************************************************)
(* Seat reservation core of the cinema backend: ReservationsService        *)
(* (createReservation, confirmPayment, expireReservation) running as       *)
(* concurrent request handlers over one relational store with row locks    *)
(* (SELECT ... FOR UPDATE under READ COMMITTED).                           *)
(*                                                                         *)
(* The committed tables are the variables seats, reservations and sales.   *)
(* Every handler runs in its own transaction: it buffers its writes, holds *)
(* the row locks it was granted until it commits or rolls back, and one    *)
(* action of the model is one awaited store call of the handler together   *)
(* with the synchronous code that follows it.                              *)
(***************************************************************************)
EXTENDS Integers, Sequences, FiniteSets, TLC

\* ------------------------------------------------------------------------
\* Bounds of the model
\* ------------------------------------------------------------------------
NumProcs == 2
NumSeats == 2
MaxReq == 2
MaxOps == 3
MaxTicks == 2
\* createReservation calls in the runs that follow holds to their expiration
MaxHolds == 2
\* largest maxAttempts a caller of retryWithBackoff passes
MaxAttempts == 7
\* deliveries handed to the batched consumer
MaxMessages == 4
\* batchSize of the BatchProcessor, scaled down (the consumer passes 10)
BatchSize == 2

\* ------------------------------------------------------------------------
\* Program constants and provisioned data
\* ------------------------------------------------------------------------
\* configService.get('app.reservationTtl', 30), in seconds
reservationTtl == 30

Procs == 1..NumProcs
Seats == 1..NumSeats
Users == {"u1", "u2"}

\* The one provisioned screening, and an id that names no screening.
SessionId == "s1"
MissingSession == "s0"
Session == [id |-> SessionId, ticketPrice |-> 25]

\* Seat labels are strings; a string is modelled by the tuple of its UTF-16
\* code units so that Array.prototype.sort's default order can be computed.
\* Seat 1 is "A2", seat 2 is "A10", seat 3 is "A11", ...
seatNumber(s) == IF s = 1 THEN <<65, 50>> ELSE <<65, 49, 46 + s>>
MissingSeatNumber == <<90, 57>>

SeatStatus == {"AVAILABLE", "RESERVED", "SOLD"}
EventNames == {"reservation.created", "payment.confirmed", "reservation.expired", "seat.released"}
\* The channel of the expiration topology: open, never created (onModuleInit
\* failed and left amqpChannel null), or closed since.
ChannelStates == {"open", "none", "closed"}
ReservationStatus == {"PENDING", "CONFIRMED", "EXPIRED", "CANCELLED"}

\* ------------------------------------------------------------------------
\* Pure helpers
\* ------------------------------------------------------------------------
Min(a, b) == IF a < b THEN a ELSE b

\* a < b in the order of the default comparator of Array.prototype.sort:
\* code unit by code unit, a proper prefix first.
LexLess(a, b) ==
  \E k \in 1..(Min(Len(a), Len(b)) + 1) :
    /\ \A j \in 1..(k - 1) : a[j] = b[j]
    /\ \/ k = Len(a) + 1 /\ k <= Len(b)
       \/ k <= Len(a) /\ k <= Len(b) /\ a[k] < b[k]

RECURSIVE InsertSorted(_, _)
InsertSorted(x, s) ==
  IF s = <<>> THEN <<x>>
  ELSE IF LexLess(x, Head(s)) THEN <<x>> \o s
  ELSE <<Head(s)>> \o InsertSorted(x, Tail(s))

\* Variant: the labels are taken in the order of the request.
SortSeatNumbers_Unsorted(s) == s

\* [...seatNumbers].sort()
RECURSIVE SortSeatNumbers(_)
SortSeatNumbers(s) ==
  IF s = <<>> THEN <<>>
  ELSE InsertSorted(s[Len(s)], SortSeatNumbers(SubSeq(s, 1, Len(s) - 1)))

RECURSIVE SeqsUpTo(_, _)
SeqsUpTo(S, n) ==
  IF n = 0 THEN {<<>>}
  ELSE LET shorter == SeqsUpTo(S, n - 1)
       IN shorter \cup {Append(q, x) : q \in {r \in shorter : Len(r) = n - 1}, x \in S}

\* The seatNumbers a request can carry: non-empty lists (ArrayMinSize(1)).
\* A label that names no seat makes the call fail at that label, whatever
\* follows it; the one-label request stands for such requests.
Requests ==
  (SeqsUpTo({seatNumber(s) : s \in Seats}, MaxReq) \ {<<>>}) \cup {<<MissingSeatNumber>>}

Range(f) == {f[x] : x \in DOMAIN f}

\* The seat row with a given label in a given screening, 0 when there is none.
SeatByNumber(sessionId, label) ==
  IF sessionId = SessionId /\ \E s \in Seats : seatNumber(s) = label
  THEN CHOOSE s \in Seats : seatNumber(s) = label
  ELSE 0

\* Variant: a lock on a seat row locks the seats of the whole screening.
SeatRow_OfScreening(s) == <<"seat", 0>>

\* Rows of the store that can be locked.
SeatRow(s) == <<"seat", s>>
ReservationRow(r) == <<"reservation", r>>
SessionRow == <<"session", 0>>

\* ------------------------------------------------------------------------
\* State
\* ------------------------------------------------------------------------
VARIABLES
  now,           \* the wall clock read by new Date() / Date.now(), in seconds
  seats,         \* committed seats table: seat id -> status
  reservations,  \* committed reservations table; the id of a row is its index
  sales,         \* committed sales table; the id of a row is its index
  tx,            \* per request handler: its position, locals and transaction
  ops,           \* number of operations started so far
  expirations,   \* the broker's delayed "expire reservation" messages
  events,        \* the domain events emitted so far
  amqpChannel,   \* the channel publishDelayedExpiration publishes on
  retry,         \* a call of retryWithBackoff: its options, position and locals
  batchProcessor \* the consumer's BatchProcessor: buffer, timer, batches in flight

vars == <<now, seats, reservations, sales, tx, ops, expirations, events, amqpChannel,
          retry, batchProcessor>>

\* One time step of the clock.
ClockStep == reservationTtl

\* A handler that is not serving a request.
IdleTx ==
  [op |-> "idle", pc |-> "idle",
   sessionId |-> "", userId |-> "", seatNumbers |-> <<>>, idx |-> 0,
   reservationId |-> 0, expiresAt |-> 0, paidAt |-> 0,
   active |-> FALSE, held |-> {}, want |-> <<>>, cands |-> <<>>, related |-> <<>>,
   seatW |-> {}, resW |-> {}, resIns |-> <<>>, saleIns |-> <<>>,
   result |-> "", created |-> {}, saleId |-> 0, delivery |-> FALSE,
   overlap |-> {}, pre |-> FALSE]

\* The deliveries the batched consumer is handed, numbered as they arrive.
Messages == 1..MaxMessages

\* new BatchProcessor(channel, processFn, options): the buffer is empty, no
\* batch is being processed and the constructor has started the flush timer.
\* inFlight holds the batches handed to processFn that have not settled;
\* added, batches, outcome and decisions are bookkeeping of the model: how
\* many messages were added, the batches each message was part of, how its
\* expireReservation settled and the acks and nacks it got. stop is the
\* position of a call of stop(), stopFlush the batch its flush started and
\* addedBeforeStop the messages added before that call.
NewBatchProcessor ==
  [batch |-> <<>>, flushTimer |-> TRUE, processing |-> FALSE, batchNumber |-> 0,
   inFlight |-> {}, added |-> 0,
   batches |-> [m \in Messages |-> {}],
   outcome |-> [m \in Messages |-> "none"],
   decisions |-> [m \in Messages |-> <<>>],
   stop |-> "no", stopFlush |-> 0, addedBeforeStop |-> 0]

\* The options of retryWithBackoff when the caller passes none. The classes
\* of retryableErrors are a set here; the delays are in milliseconds.
defaultOptions ==
  [maxAttempts |-> 3, initialDelayMs |-> 100, maxDelayMs |-> 5000,
   backoffMultiplier |-> 2, retryableErrors |-> {}]

\* No call of retryWithBackoff has been made.
IdleRetry ==
  [pc |-> "idle", opts |-> defaultOptions, attempt |-> 0, calls |-> 0,
   errors |-> <<>>, delayMs |-> 0, thrown |-> ""]

Init ==
  /\ now = 0
  /\ seats = [s \in Seats |-> "AVAILABLE"]
  /\ reservations = <<>>
  /\ sales = <<>>
  /\ tx = [p \in Procs |-> IdleTx]
  /\ ops = 0
  /\ expirations = {}
  /\ events = {}
  /\ amqpChannel = "open"
  /\ retry = IdleRetry
  /\ batchProcessor = NewBatchProcessor

ReservationIds == 1..Len(reservations)
SaleIds == 1..Len(sales)

\* An id that names no reservation.
MissingReservation == 0

\* ------------------------------------------------------------------------
\* The store: row locks, transaction-local views, commit and rollback
\* ------------------------------------------------------------------------
\* Variant: rows are read without taking FOR UPDATE locks.
Free_Always(p, row) == TRUE

\* No other transaction holds the lock of the row.
Free(p, row) == \A q \in Procs \ {p} : row \notin tx[q].held

\* How many leading rows of w the transaction is granted before it has to wait.
GrantLen(p, w) ==
  CHOOSE n \in 0..Len(w) :
    /\ \A j \in 1..n : Free(p, w[j])
    /\ n = Len(w) \/ ~Free(p, w[n + 1])

\* A locking statement takes the locks of its rows one after the other and
\* waits at the first row that another transaction holds.
Granted(p, w) == {w[j] : j \in 1..GrantLen(p, w)}
StillWanted(p, w) == SubSeq(w, GrantLen(p, w) + 1, Len(w))
Lock(t, p, w) == [t EXCEPT !.held = @ \cup Granted(p, w), !.want = StillWanted(p, w)]

\* The transaction the handler waits for, 0 when it does not wait.
WaitsFor(p) ==
  IF tx[p].want # <<>> /\ ~Free(p, Head(tx[p].want))
  THEN CHOOSE q \in Procs \ {p} : Head(tx[p].want) \in tx[q].held
  ELSE 0

RECURSIVE WaitChainReaches(_, _, _)
WaitChainReaches(from, to, n) ==
  IF n = 0 \/ from = 0 THEN FALSE
  ELSE WaitsFor(from) = to \/ WaitChainReaches(WaitsFor(from), to, n - 1)

\* The handler is part of a lock-wait cycle.
InDeadlock(p) == WaitChainReaches(p, p, NumProcs)

\* Function-like sets of <<key, value>> pairs: the write buffers.
Put(W, k, v) == {x \in W : x[1] # k} \cup {<<k, v>>}
Has(W, k) == \E x \in W : x[1] = k
Get(W, k) == (CHOOSE x \in W : x[1] = k)[2]

\* What a transaction with seat writes W reads: its own writes over the
\* committed rows.
SeatView(W, s) == IF Has(W, s) THEN Get(W, s) ELSE seats[s]

\* The tables after the transaction's buffered writes are applied.
CommittedSeats(p) == [s \in Seats |-> SeatView(tx[p].seatW, s)]
CommittedReservations(p) ==
  [r \in ReservationIds |->
     IF Has(tx[p].resW, r) THEN [reservations[r] EXCEPT !.status = Get(tx[p].resW, r)]
     ELSE reservations[r]] \o tx[p].resIns
CommittedSales(p) == sales \o tx[p].saleIns

\* The end of a transaction, by commitTransaction() or rollbackTransaction():
\* its locks are released and its write buffers are gone.
EndTransaction(t) ==
  [t EXCEPT !.active = FALSE, !.held = {}, !.want = <<>>,
            !.seatW = {}, !.resW = {}, !.resIns = <<>>, !.saleIns = <<>>]

\* What is kept of a handler that has returned or thrown: the outcome, and
\* the request too as long as another request that ran concurrently is known.
Outcome(t) ==
  IF t.overlap = {}
  THEN [IdleTx EXCEPT !.op = t.op, !.pc = "done", !.result = t.result,
                      !.saleId = t.saleId]
  ELSE [t EXCEPT !.idx = 0, !.cands = <<>>, !.related = <<>>, !.paidAt = 0,
                 !.expiresAt = 0, !.sessionId = ""]
Finished(t, result) == Outcome([t EXCEPT !.pc = "done", !.result = result])

\* Variant: rollbackTransaction() of an ended transaction does nothing, the
\* error of the handler is rethrown as it is.
Throw_Rethrows(t, e) == Finished(EndTransaction(t), e)

\* The handler throws e: catch runs rollbackTransaction(), which itself
\* throws when the transaction is no longer active, then the error is
\* rethrown; finally runs release().
Throw(t, e) ==
  Finished(EndTransaction(t), IF t.active THEN e ELSE "TransactionNotStartedError")

\* A handler is serving a request that has not returned or thrown yet.
Running(t) == t.pc \notin {"idle", "done"}

\* Handler p takes a new call and is in state t after the first awaited
\* call of the method. The handlers that are in flight at that moment and p
\* are recorded as overlapping each other.
Accept(p, t) ==
  /\ ~Running(tx[p])
  /\ LET others == {o \in Procs \ {p} : Running(tx[o])}
         new == [t EXCEPT !.overlap = others]
     IN tx' = [q \in Procs |->
                IF q = p THEN (IF Running(new) THEN new ELSE Outcome(new))
                ELSE IF Running(tx[q])
                     THEN [tx[q] EXCEPT !.overlap = @ \cup {p}]
                     ELSE IF p \in tx[q].overlap
                          THEN Outcome([tx[q] EXCEPT !.overlap = {}])
                          ELSE tx[q]]

\* Handler p takes a new request of a client.
Begin(p, t) ==
  /\ ops < MaxOps
  /\ ops' = ops + 1
  /\ Accept(p, t)

\* Variant: the buffered writes of the transaction survive its rollback.
RollbackTransaction_KeepsWrites(p) ==
  /\ seats' = CommittedSeats(p)
  /\ reservations' = CommittedReservations(p)
  /\ sales' = sales

\* rollbackTransaction(): nothing of what the transaction wrote is kept.
RollbackTransaction(p) == UNCHANGED <<seats, reservations, sales>>

Step(p, t) == tx' = [tx EXCEPT ![p] = t]

\* A locking statement is issued (nothing is wanted yet) or goes on after a
\* wait (the lock it waited for is free).
CanRun(p) == IF tx[p].want = <<>> THEN TRUE ELSE Free(p, Head(tx[p].want))
Statement(p, rows) == IF tx[p].want = <<>> THEN rows ELSE tx[p].want

\* ------------------------------------------------------------------------
\* createReservation
\* ------------------------------------------------------------------------
\* The statuses the handlers write.
\* Variant: a hold leaves its seat AVAILABLE.
HeldSeatStatus_Available == "AVAILABLE"
HeldSeatStatus == "RESERVED"
NewReservationStatus == "PENDING"
\* Variant: a payment marks its reservations CANCELLED.
ConfirmedStatus_Cancelled == "CANCELLED"
ConfirmedStatus == "CONFIRMED"
\* Variant: a payment releases its seats.
SoldSeatStatus_Available == "AVAILABLE"
SoldSeatStatus == "SOLD"
ExpiredStatus == "EXPIRED"
\* Variant: an expiration leaves its seat RESERVED.
ReleasedSeatStatus_Reserved == "RESERVED"
ReleasedSeatStatus == "AVAILABLE"

\* Variant: a hold does not look at the seat's status.
SeatIsAvailable_Always(status) == TRUE

\* seat.status !== SeatStatus.AVAILABLE is what rejects a seat.
SeatIsAvailable(status) == status = "AVAILABLE"

\* Variant: the deadline of a hold is the time of the call.
HoldExpiresAt_NoTtl(clock) == clock

\* The hold's deadline: new Date(Date.now() + this.reservationTtl * 1000).
HoldExpiresAt(clock) == clock + reservationTtl

\* Every requested seat exists and is AVAILABLE in the committed table, and
\* no label is requested twice.
AllAvailable(sessionId, seatNumbers) ==
  /\ sessionId = SessionId
  /\ \A i \in 1..Len(seatNumbers) :
       /\ SeatByNumber(sessionId, seatNumbers[i]) # 0
       /\ seats[SeatByNumber(sessionId, seatNumbers[i])] = "AVAILABLE"
  /\ \A i, j \in 1..Len(seatNumbers) : seatNumbers[i] = seatNumbers[j] => i = j

\* The call: the labels are sorted, a transaction is opened, the screening is
\* looked up without a lock and the deadline of the hold is computed.
CreateReservation(p, sessionId, seatNumbers, userId) ==
  /\ LET t == [IdleTx EXCEPT !.op = "create", !.active = TRUE,
                             !.sessionId = sessionId, !.userId = userId,
                             !.seatNumbers = SortSeatNumbers(seatNumbers),
                             !.pre = AllAvailable(sessionId, seatNumbers)]
     IN Begin(p, IF sessionId # Session.id
                 THEN Throw(t, "NotFoundException: Session not found")
                 ELSE [t EXCEPT !.pc = "ch_lockSeat", !.idx = 1,
                                !.expiresAt = HoldExpiresAt(now)])
  /\ UNCHANGED <<now, seats, reservations, sales, expirations, events, amqpChannel, retry, batchProcessor>>

\* One turn of the loop: SELECT ... FOR UPDATE of the seat row with the next
\* label, the checks on the row it returns, then save(Seat) with status
\* RESERVED and save(Reservation) of the new PENDING hold. The two writes stay
\* private to the transaction until it commits.
ChLockSeat(p) ==
  /\ tx[p].pc = "ch_lockSeat"
  /\ CanRun(p)
  /\ LET s == SeatByNumber(tx[p].sessionId, tx[p].seatNumbers[tx[p].idx])
         t == Lock(tx[p], p, Statement(p, IF s = 0 THEN <<>> ELSE <<SeatRow(s)>>))
         r == [seatId |-> s, userId |-> t.userId, status |-> NewReservationStatus,
               expiresAt |-> t.expiresAt, holdId |-> 0]
         last == t.idx = Len(t.seatNumbers)
     IN IF t.want # <<>>
        THEN Step(p, t) /\ UNCHANGED <<seats, reservations, sales>>
        ELSE IF s = 0
             THEN /\ Step(p, Throw(t, "NotFoundException: Seat not found"))
                  /\ RollbackTransaction(p)
        ELSE IF ~SeatIsAvailable(SeatView(t.seatW, s))
             THEN /\ Step(p, Throw(t, "BadRequestException: Seat is not available"))
                  /\ RollbackTransaction(p)
        ELSE /\ Step(p, [t EXCEPT !.seatW = Put(@, s, HeldSeatStatus),
                                  !.resIns = Append(@, r),
                                  !.idx = IF last THEN @ ELSE @ + 1,
                                  !.pc = IF last THEN "ch_commit" ELSE "ch_lockSeat"])
             /\ UNCHANGED <<seats, reservations, sales>>
  /\ UNCHANGED <<now, ops, expirations, events, amqpChannel, retry, batchProcessor>>

\* The holds of one call, as they are inserted. holdId is bookkeeping of the
\* model, not a column: it names the call that made the hold (by the id of
\* the first hold of the call).
InsertedHolds(resIns) ==
  [i \in 1..Len(resIns) |-> [resIns[i] EXCEPT !.holdId = Len(reservations) + 1]]

\* commitTransaction(): the seats and the holds become visible together.
ChCommit(p) ==
  /\ tx[p].pc = "ch_commit"
  /\ seats' = CommittedSeats(p)
  /\ reservations' = reservations \o InsertedHolds(tx[p].resIns)
  /\ Step(p, [EndTransaction(tx[p]) EXCEPT
                !.pc = "ch_post",
                !.created = (Len(reservations) + 1)..(Len(reservations) + Len(tx[p].resIns))])
  /\ UNCHANGED <<now, sales, ops, expirations, events, amqpChannel, retry, batchProcessor>>

\* Variant: the delayed message is published without its TTL.
ScheduledExpirations_NoDelay(created) ==
  {[reservationId |-> r, queue |-> "wait", ttl |-> 0] : r \in created}

\* publishDelayedExpiration(res.id, this.reservationTtl * 1000) for each new
\* hold: a message that sits in the wait queue until its TTL has run out.
ScheduledExpirations(created) ==
  {[reservationId |-> r, queue |-> "wait", ttl |-> reservationTtl] : r \in created}

\* Variant: nothing is emitted.
Emitted_None(name, ids) == {}

\* Variant: the events name rows that do not exist yet.
Emitted_Phantom(name, ids) == {[name |-> name, id |-> i + NumSeats * MaxOps] : i \in ids}

\* rabbitClient.emit(name, payload) for each of the given rows: the events
\* have left the handler.
Emitted(name, ids) == {[name |-> name, id |-> i] : i \in ids}

\* The row a loop over the given rows takes first.
First(ids) == CHOOSE i \in ids : \A j \in ids : i <= j

\* After the commit, for each new hold in turn: the reservation.created event
\* and the delayed expiration message; then the return. Without a channel
\* (the topology was never set up) publishDelayedExpiration logs and returns.
\* On a channel that has been closed publish() throws at the first hold: the
\* catch block runs rollbackTransaction() on the committed transaction.
ChPost(p) ==
  /\ tx[p].pc = "ch_post"
  /\ IF amqpChannel = "closed"
     THEN /\ events' = events \cup Emitted("reservation.created", {First(tx[p].created)})
          /\ expirations' = expirations
          /\ Step(p, Throw(tx[p], "IllegalOperationError: Channel closed"))
     ELSE /\ events' = events \cup Emitted("reservation.created", tx[p].created)
          /\ expirations' = IF amqpChannel = "open"
                            THEN expirations \cup ScheduledExpirations(tx[p].created)
                            ELSE expirations
          /\ Step(p, Finished(tx[p], "ok"))
  /\ UNCHANGED <<now, seats, reservations, sales, ops, amqpChannel, retry, batchProcessor>>

\* ------------------------------------------------------------------------
\* confirmPayment
\* ------------------------------------------------------------------------
\* Variant: a payment does not look at the clock.
ConfirmTooLate_Never(clock, expiresAt) == FALSE

\* new Date() > reservation.expiresAt is what refuses a late payment.
ConfirmTooLate(clock, expiresAt) == clock > expiresAt

\* Variant: the booking-group query without its status filter.
InBookingGroup_AnyStatus(row, t) ==
  row.userId = t.userId /\ row.expiresAt = t.expiresAt

\* The WHERE clause of the booking-group query for the target row t: same
\* user, same screening (there is one), same expiresAt, still PENDING.
InBookingGroup(row, t) ==
  /\ row.userId = t.userId
  /\ row.expiresAt = t.expiresAt
  /\ row.status = "PENDING"

\* Variant: the payment's queries without FOR UPDATE.
JoinedRows_Unlocked(r) == <<>>

\* The rows one result row of a FOR UPDATE query over
\* reservation JOIN seat JOIN session locks, in the order of the joins.
JoinedRows(r) == <<ReservationRow(r), SeatRow(reservations[r].seatId), SessionRow>>

RECURSIVE JoinedRowsOfAll(_)
JoinedRowsOfAll(rs) ==
  IF rs = <<>> THEN <<>> ELSE JoinedRows(Head(rs)) \o JoinedRowsOfAll(Tail(rs))

\* The ids of the committed reservations, in ascending order.
AllReservationIds == [i \in 1..Len(reservations) |-> i]

\* Variant: the lookup returns the oldest sale, whatever its reservation.
SaleOfReservation_Any(r) == IF sales = <<>> THEN 0 ELSE 1

\* findOne(Sale, {where: {reservationId}}): the id of the sale, 0 for none.
SaleOfReservation(r) ==
  IF \E i \in SaleIds : sales[i].reservationId = r
  THEN CHOOSE i \in SaleIds :
         /\ sales[i].reservationId = r
         /\ \A j \in SaleIds : sales[j].reservationId = r => i <= j
  ELSE 0

\* Variant: the first query matches the id alone.
FindsReservation_AnyUser(r, userId) == r \in ReservationIds

\* The row the first query looks for: id and userId must both match.
FindsReservation(r, userId) ==
  r \in ReservationIds /\ reservations[r].userId = userId

\* The call: a transaction is opened.
ConfirmPayment(p, reservationId, userId) ==
  /\ Begin(p, [IdleTx EXCEPT !.op = "confirm", !.pc = "cp_findReservation",
                             !.active = TRUE,
                             !.reservationId = reservationId, !.userId = userId,
                             !.pre = /\ reservationId \in ReservationIds
                                     /\ reservations[reservationId].status = "PENDING"
                                     /\ reservations[reservationId].userId = userId])
  /\ UNCHANGED <<now, seats, reservations, sales, expirations, events, amqpChannel, retry, batchProcessor>>

\* SELECT ... FOR UPDATE of the reservation (with its seat and screening)
\* WHERE id and userId match, then the checks on the row it returns.
CpFindReservation(p) ==
  /\ tx[p].pc = "cp_findReservation"
  /\ CanRun(p)
  /\ LET r == tx[p].reservationId
         found == FindsReservation(r, tx[p].userId)
         t == Lock(tx[p], p, Statement(p, IF found THEN JoinedRows(r) ELSE <<>>))
     IN IF t.want # <<>>
        THEN Step(p, t) /\ UNCHANGED <<seats, reservations, sales>>
        ELSE IF ~found
             THEN /\ Step(p, Throw(t, "NotFoundException: Reservation not found"))
                  /\ RollbackTransaction(p)
        ELSE IF reservations[r].status = "CONFIRMED"
             THEN /\ Step(p, [t EXCEPT !.pc = "cp_findSale"])
                  /\ UNCHANGED <<seats, reservations, sales>>
        ELSE IF reservations[r].status # "PENDING"
             THEN /\ Step(p, Throw(t, "BadRequestException: Reservation is not pending"))
                  /\ RollbackTransaction(p)
        ELSE IF ConfirmTooLate(now, reservations[r].expiresAt)
             THEN /\ Step(p, Throw(t, "BadRequestException: Reservation has expired"))
                  /\ RollbackTransaction(p)
        ELSE /\ Step(p, [t EXCEPT !.pc = "cp_findRelated",
                                  !.expiresAt = reservations[r].expiresAt])
             /\ UNCHANGED <<seats, reservations, sales>>
  /\ UNCHANGED <<now, ops, expirations, events, amqpChannel, retry, batchProcessor>>

\* Already CONFIRMED: look the existing sale up, commit, then return the
\* sale or throw when there is none.
CpFindSale(p) ==
  /\ tx[p].pc = "cp_findSale"
  /\ LET sale == SaleOfReservation(tx[p].reservationId)
         t == [EndTransaction(tx[p]) EXCEPT !.saleId = sale]
     IN IF sale = 0
        THEN Step(p, Throw(t, "BadRequestException: sale record not found"))
        ELSE Step(p, Finished(t, "idempotent"))
  /\ UNCHANGED <<now, seats, reservations, sales, ops, expirations, events, amqpChannel, retry, batchProcessor>>

\* Variant: the loop records a sale for the first reservation only.
RECURSIVE ConfirmAll_OneSale(_, _)
ConfirmAll_OneSale(t, rs) ==
  IF rs = <<>> THEN t
  ELSE LET r == Head(rs)
           sale == [seatId |-> reservations[r].seatId, userId |-> reservations[r].userId,
                    reservationId |-> r, amount |-> Session.ticketPrice,
                    paidAt |-> t.paidAt]
       IN ConfirmAll_OneSale(
            [t EXCEPT !.resW = Put(@, r, "CONFIRMED"),
                      !.seatW = Put(@, reservations[r].seatId, "SOLD"),
                      !.saleIns = IF @ = <<>> THEN <<sale>> ELSE @],
            Tail(rs))

\* The writes of the loop over the booking group: each reservation CONFIRMED,
\* its seat SOLD, and a sale at the screening's price with the shared paidAt.
RECURSIVE ConfirmAll(_, _)
ConfirmAll(t, rs) ==
  IF rs = <<>> THEN t
  ELSE LET r == Head(rs)
           sale == [seatId |-> reservations[r].seatId, userId |-> reservations[r].userId,
                    reservationId |-> r, amount |-> Session.ticketPrice,
                    paidAt |-> t.paidAt]
       IN ConfirmAll([t EXCEPT !.resW = Put(@, r, ConfirmedStatus),
                               !.seatW = Put(@, reservations[r].seatId, SoldSeatStatus),
                               !.saleIns = Append(@, sale)],
                     Tail(rs))

\* SELECT ... FOR UPDATE of the booking group. The candidate rows are those
\* that satisfy the WHERE clause when the statement is issued; a row is
\* checked again once its lock is granted and is dropped when it is no longer
\* PENDING. Then paidAt is read from the clock and the loop does its writes,
\* which stay private to the transaction until it commits.
CpFindRelated(p) ==
  /\ tx[p].pc = "cp_findRelated"
  /\ CanRun(p)
  /\ LET target == [userId |-> tx[p].userId, expiresAt |-> tx[p].expiresAt]
         Matches(i) == InBookingGroup(reservations[i], target)
         cands == IF tx[p].want = <<>> THEN SelectSeq(AllReservationIds, Matches)
                  ELSE tx[p].cands
         t == [Lock(tx[p], p, Statement(p, JoinedRowsOfAll(cands))) EXCEPT !.cands = cands]
         related == SelectSeq(cands, Matches)
     IN IF t.want # <<>> THEN Step(p, t)
        ELSE Step(p, [ConfirmAll([t EXCEPT !.paidAt = now], related) EXCEPT
                        !.related = related, !.pc = "cp_commit"])
  /\ UNCHANGED <<now, seats, reservations, sales, ops, expirations, events, amqpChannel, retry, batchProcessor>>

\* The position of the sale made for reservation r in the sales to insert.
PrimarySale(saleIns, r) ==
  IF \E i \in 1..Len(saleIns) : saleIns[i].reservationId = r
  THEN CHOOSE i \in 1..Len(saleIns) : saleIns[i].reservationId = r
  ELSE 0

\* commitTransaction(): the whole group becomes CONFIRMED and SOLD together.
CpCommit(p) ==
  /\ tx[p].pc = "cp_commit"
  /\ seats' = CommittedSeats(p)
  /\ reservations' = CommittedReservations(p)
  /\ sales' = CommittedSales(p)
  /\ LET k == PrimarySale(tx[p].saleIns, tx[p].reservationId)
     IN Step(p, [EndTransaction(tx[p]) EXCEPT
                   !.pc = "cp_post",
                   !.created = (Len(sales) + 1)..(Len(sales) + Len(tx[p].saleIns)),
                   !.saleId = IF k = 0 THEN 0 ELSE Len(sales) + k])
  /\ UNCHANGED <<now, ops, expirations, events, amqpChannel, retry, batchProcessor>>

\* After the commit: the events, then the sale of the requested reservation.
CpPost(p) ==
  /\ tx[p].pc = "cp_post"
  /\ events' = events \cup Emitted("payment.confirmed", tx[p].created)
  /\ IF tx[p].saleId = 0
     THEN Step(p, Throw(tx[p], "Error: Primary sale not found"))
     ELSE Step(p, Finished(tx[p], "ok"))
  /\ UNCHANGED <<now, seats, reservations, sales, ops, expirations, amqpChannel, retry, batchProcessor>>

\* ------------------------------------------------------------------------
\* expireReservation
\* ------------------------------------------------------------------------
\* Variant: an expiration does not look at the clock.
ExpireTooEarly_Never(clock, expiresAt) == FALSE

\* Variant: an expiration at the very instant of the deadline goes through.
ExpireTooEarly_Strict(clock, expiresAt) == clock < expiresAt

\* new Date() <= reservation.expiresAt is what makes the timer "too early".
ExpireTooEarly(clock, expiresAt) == clock <= expiresAt

\* Variant: an expiration does not look at the reservation's status.
StillPending_Always(status) == TRUE

\* reservation.status !== ReservationStatus.PENDING is what makes a repeated
\* expiration skip.
StillPending(status) == status = "PENDING"

\* The first awaited call of the method: a transaction is opened.
ExpireStarted(reservationId, delivery) ==
  [IdleTx EXCEPT !.op = "expire", !.pc = "ex_findReservation",
                 !.active = TRUE, !.reservationId = reservationId,
                 !.delivery = delivery,
                 !.pre = /\ reservationId \in ReservationIds
                         /\ reservations[reservationId].status = "PENDING"]

\* A call of expireReservation for any id at any time: a message that the
\* broker delivers early, late or once more, or one that names no reservation.
ExpireReservation(p, reservationId) ==
  /\ Begin(p, ExpireStarted(reservationId, FALSE))
  /\ UNCHANGED <<now, seats, reservations, sales, expirations, events, amqpChannel, retry, batchProcessor>>

\* The consumer is handed the message m of the process queue, which is not
\* being handled already, and calls expireReservation for it.
HandleReservationExpire(p, m) ==
  /\ m \in expirations
  /\ m.queue = "process"
  /\ \A q \in Procs :
       ~(Running(tx[q]) /\ tx[q].delivery /\ tx[q].reservationId = m.reservationId)
  /\ Accept(p, ExpireStarted(m.reservationId, TRUE))
  /\ UNCHANGED <<now, seats, reservations, sales, ops, expirations, events, amqpChannel, retry, batchProcessor>>

\* Variant: the consumer never acks.
Acknowledged_Never(t) == expirations

\* channel.nack(originalMsg, false, true) after expireReservation has thrown:
\* the broker puts the message back into the process queue.
Requeued(t) == expirations

\* channel.ack(originalMsg) after expireReservation has returned: the message
\* the consumer was handed leaves the queue.
Acknowledged(t) ==
  IF t.delivery THEN {m \in expirations : m.reservationId # t.reservationId}
  ELSE expirations

\* SELECT ... FOR UPDATE of the reservation with its seat, then the checks.
\* When there is nothing to expire the empty transaction is committed and the
\* method returns; otherwise the reservation is set EXPIRED and its seat
\* AVAILABLE, and save(Seat) and save(Reservation) buffer the two writes.
ExFindReservation(p) ==
  /\ tx[p].pc = "ex_findReservation"
  /\ CanRun(p)
  /\ LET r == tx[p].reservationId
         found == r \in ReservationIds
         t == Lock(tx[p], p, Statement(p, IF found
                                          THEN <<ReservationRow(r), SeatRow(reservations[r].seatId)>>
                                          ELSE <<>>))
     IN IF t.want # <<>>
        THEN Step(p, t) /\ UNCHANGED expirations
        ELSE IF ~found
             THEN /\ Step(p, Finished(EndTransaction(t), "skipped: not found"))
                  /\ expirations' = Acknowledged(t)
        ELSE IF ~StillPending(reservations[r].status)
             THEN /\ Step(p, Finished(EndTransaction(t), "skipped: not pending"))
                  /\ expirations' = Acknowledged(t)
        ELSE IF ExpireTooEarly(now, reservations[r].expiresAt)
             THEN /\ Step(p, Finished(EndTransaction(t), "skipped: too early"))
                  /\ expirations' = Acknowledged(t)
        ELSE /\ Step(p, [t EXCEPT !.seatW = Put(@, reservations[r].seatId, ReleasedSeatStatus),
                                  !.resW = Put(@, r, ExpiredStatus),
                                  !.pc = "ex_commit"])
             /\ UNCHANGED expirations
  /\ UNCHANGED <<now, seats, reservations, sales, ops, events, amqpChannel, retry, batchProcessor>>

\* commitTransaction(): the hold is EXPIRED and its seat is free again.
ExCommit(p) ==
  /\ tx[p].pc = "ex_commit"
  /\ seats' = CommittedSeats(p)
  /\ reservations' = CommittedReservations(p)
  /\ Step(p, [EndTransaction(tx[p]) EXCEPT !.pc = "ex_post"])
  /\ UNCHANGED <<now, sales, ops, expirations, events, amqpChannel, retry, batchProcessor>>

\* After the commit: the reservation.expired and seat.released events, the
\* return, and the consumer's ack when it made the call.
ExPost(p) ==
  /\ tx[p].pc = "ex_post"
  /\ events' = events \cup Emitted("reservation.expired", {tx[p].reservationId})
                      \cup Emitted("seat.released", {reservations[tx[p].reservationId].seatId})
  /\ expirations' = Acknowledged(tx[p])
  /\ Step(p, Finished(tx[p], "expired"))
  /\ UNCHANGED <<now, seats, reservations, sales, ops, amqpChannel, retry, batchProcessor>>

\* ------------------------------------------------------------------------
\* The environment
\* ------------------------------------------------------------------------
\* The store ends a lock-wait cycle by failing the statement of one of the
\* transactions in it. (When the consumer made the call it nacks the message,
\* which stays in the queue.)
DeadlockDetected(p) ==
  /\ InDeadlock(p)
  /\ Step(p, Throw(tx[p], "QueryFailedError: deadlock detected"))
  /\ RollbackTransaction(p)
  /\ UNCHANGED <<now, ops, expirations, events, amqpChannel, retry, batchProcessor>>

\* A message of the wait queue after some time has elapsed: the broker
\* dead-letters it into the process queue, where the consumer reads it, when
\* its TTL has run out.
DeadLettered(m, elapsed) ==
  IF m.queue = "process" THEN m
  ELSE IF m.ttl <= elapsed THEN [m EXCEPT !.queue = "process", !.ttl = 0]
  ELSE [m EXCEPT !.ttl = @ - elapsed]

\* Time passes.
Tick ==
  /\ now < MaxTicks * ClockStep
  /\ now' = now + ClockStep
  /\ expirations' = {DeadLettered(m, ClockStep) : m \in expirations}
  /\ UNCHANGED <<seats, reservations, sales, tx, ops, events, amqpChannel, retry, batchProcessor>>

\* The requests a caller can make of createReservation. A request for a
\* screening that does not exist fails before its labels and user are read,
\* so one such request stands for all of them.
CreateRequests ==
  {<<SessionId, q, u>> : q \in Requests, u \in Users}
    \cup {<<MissingSession, <<seatNumber(1)>>, "u1">>}

\* Handlers of any replica serve requests of any user, the consumer is handed
\* expiration messages, the clock advances.
Next ==
  \/ \E p \in Procs, c \in CreateRequests : CreateReservation(p, c[1], c[2], c[3])
  \/ \E p \in Procs : ChLockSeat(p)
  \/ \E p \in Procs : ChCommit(p)
  \/ \E p \in Procs : ChPost(p)
  \/ \E p \in Procs, u \in Users, r \in 1..(Len(reservations) + 1) :
       ConfirmPayment(p, r, u)
  \/ \E p \in Procs : CpFindReservation(p)
  \/ \E p \in Procs : CpFindSale(p)
  \/ \E p \in Procs : CpFindRelated(p)
  \/ \E p \in Procs : CpCommit(p)
  \/ \E p \in Procs : CpPost(p)
  \/ \E p \in Procs, r \in ReservationIds \cup {MissingReservation} :
       ExpireReservation(p, r)
  \/ \E p \in Procs : ExFindReservation(p)
  \/ \E p \in Procs : ExCommit(p)
  \/ \E p \in Procs : ExPost(p)
  \/ \E p \in Procs : DeadlockDetected(p)
  \/ Tick

Spec == Init /\ [][Next]_vars

\* Holds only: request handlers that serve nothing but createReservation, each
\* of which goes on whenever it can take its next step.
HoldsNext ==
  \/ \E p \in Procs, c \in CreateRequests : CreateReservation(p, c[1], c[2], c[3])
  \/ \E p \in Procs : ChLockSeat(p)
  \/ \E p \in Procs : ChCommit(p)
  \/ \E p \in Procs : ChPost(p)

HoldsSpec ==
  /\ Init
  /\ [][HoldsNext]_vars
  /\ \A p \in Procs : WF_vars(ChLockSeat(p) \/ ChCommit(p) \/ ChPost(p))

\* Holds and their timers only: createReservation publishes the delayed
\* messages, the broker dead-letters each message when its TTL has run out
\* and the consumer is handed every message of the process queue.
ExpiryNext ==
  \/ \E p \in Procs, c \in CreateRequests :
       ops < MaxHolds /\ CreateReservation(p, c[1], c[2], c[3])
  \/ \E p \in Procs : ChLockSeat(p)
  \/ \E p \in Procs : ChCommit(p)
  \/ \E p \in Procs : ChPost(p)
  \/ \E p \in Procs, m \in expirations : HandleReservationExpire(p, m)
  \/ \E p \in Procs : ExFindReservation(p)
  \/ \E p \in Procs : ExCommit(p)
  \/ \E p \in Procs : ExPost(p)
  \/ Tick

\* Every handler goes on whenever it can take its next step, time passes, and
\* a message of the process queue is eventually handed to the consumer.
ExpirySpec ==
  /\ Init
  /\ [][ExpiryNext]_vars
  /\ \A p \in Procs : WF_vars(ChLockSeat(p) \/ ChCommit(p) \/ ChPost(p))
  /\ \A p \in Procs : WF_vars(ExFindReservation(p) \/ ExCommit(p) \/ ExPost(p))
  /\ WF_vars(\E p \in Procs, m \in expirations : HandleReservationExpire(p, m))
  /\ WF_vars(Tick)

\* The service after onModuleInit: the topology is set up and the channel is
\* open, or connecting failed, the error was logged and there is no channel.
BrokerInit ==
  /\ now = 0
  /\ seats = [s \in Seats |-> "AVAILABLE"]
  /\ reservations = <<>>
  /\ sales = <<>>
  /\ tx = [p \in Procs |-> IdleTx]
  /\ ops = 0
  /\ expirations = {}
  /\ events = {}
  /\ amqpChannel \in {"open", "none"}
  /\ retry = IdleRetry
  /\ batchProcessor = NewBatchProcessor

\* The broker closes the channel (a failed assert, a connection loss); the
\* service keeps its reference to it.
ChannelClosed ==
  /\ amqpChannel = "open"
  /\ amqpChannel' = "closed"
  /\ UNCHANGED <<now, seats, reservations, sales, tx, ops, expirations, events, retry, batchProcessor>>

\* Holds against a broker that may be missing or go away.
BrokerNext ==
  \/ \E p \in Procs, c \in CreateRequests :
       ops < MaxHolds /\ CreateReservation(p, c[1], c[2], c[3])
  \/ \E p \in Procs : ChLockSeat(p)
  \/ \E p \in Procs : ChCommit(p)
  \/ \E p \in Procs : ChPost(p)
  \/ ChannelClosed
  \/ Tick

BrokerSpec == BrokerInit /\ [][BrokerNext]_vars

\* The store is written from outside the service while no request is being
\* served: a PENDING reservation is set CONFIRMED and its seat SOLD, and no
\* sale is recorded. This is the state confirmPayment reports as "confirmed
\* but sale record not found".
StoreCorrupted(r) ==
  /\ \A p \in Procs : ~Running(tx[p])
  /\ reservations[r].status = "PENDING"
  /\ reservations' = [reservations EXCEPT ![r].status = ConfirmedStatus]
  /\ seats' = [seats EXCEPT ![reservations[r].seatId] = SoldSeatStatus]
  /\ UNCHANGED <<now, sales, tx, ops, expirations, events, amqpChannel, retry, batchProcessor>>

\* Holds and payments over a store that can be corrupted this way.
CorruptNext ==
  \/ \E p \in Procs, c \in CreateRequests :
       ops < MaxHolds /\ CreateReservation(p, c[1], c[2], c[3])
  \/ \E p \in Procs : ChLockSeat(p)
  \/ \E p \in Procs : ChCommit(p)
  \/ \E p \in Procs : ChPost(p)
  \/ \E p \in Procs, u \in Users, r \in 1..(Len(reservations) + 1) :
       ConfirmPayment(p, r, u)
  \/ \E p \in Procs : CpFindReservation(p)
  \/ \E p \in Procs : CpFindSale(p)
  \/ \E p \in Procs : CpFindRelated(p)
  \/ \E p \in Procs : CpCommit(p)
  \/ \E p \in Procs : CpPost(p)
  \/ \E p \in Procs : DeadlockDetected(p)
  \/ \E r \in ReservationIds : StoreCorrupted(r)

CorruptSpec == Init /\ [][CorruptNext]_vars

\* An awaited call of the store fails in a delivery's expireReservation (the
\* connection is lost, a statement times out): the catch block rolls back and
\* rethrows, and the consumer nacks the message with requeue.
StoreFails(p) ==
  /\ tx[p].op = "expire"
  /\ tx[p].delivery
  /\ tx[p].pc \in {"ex_findReservation", "ex_commit"}
  /\ Step(p, Throw(tx[p], "QueryFailedError: connection terminated"))
  /\ RollbackTransaction(p)
  /\ expirations' = Requeued(tx[p])
  /\ UNCHANGED <<now, ops, events, amqpChannel, retry, batchProcessor>>

\* The consumer over a store that can fail.
ConsumerNext ==
  \/ ExpiryNext
  \/ \E p \in Procs : StoreFails(p)

ConsumerSpec == Init /\ [][ConsumerNext]_vars

\* Every operation of the service and the consumer, with or without an AMQP
\* channel.
SchedulerNext ==
  \/ \E p \in Procs, c \in CreateRequests :
       ops < MaxHolds /\ CreateReservation(p, c[1], c[2], c[3])
  \/ \E p \in Procs : ChLockSeat(p)
  \/ \E p \in Procs : ChCommit(p)
  \/ \E p \in Procs : ChPost(p)
  \/ \E p \in Procs, u \in Users, r \in 1..(Len(reservations) + 1) :
       ConfirmPayment(p, r, u)
  \/ \E p \in Procs : CpFindReservation(p)
  \/ \E p \in Procs : CpFindSale(p)
  \/ \E p \in Procs : CpFindRelated(p)
  \/ \E p \in Procs : CpCommit(p)
  \/ \E p \in Procs : CpPost(p)
  \/ \E p \in Procs, m \in expirations : HandleReservationExpire(p, m)
  \/ \E p \in Procs : ExFindReservation(p)
  \/ \E p \in Procs : ExCommit(p)
  \/ \E p \in Procs : ExPost(p)
  \/ \E p \in Procs : DeadlockDetected(p)
  \/ Tick

SchedulerSpec == BrokerInit /\ [][SchedulerNext]_vars

\* ------------------------------------------------------------------------
\* BatchProcessor and the batched consumer
\* ------------------------------------------------------------------------
\* Variant: flush starts a batch even while another is being processed.
Flush_WhileProcessing(bp) ==
  IF bp.batch = <<>> THEN bp
  ELSE [bp EXCEPT !.processing = TRUE, !.batch = <<>>, !.batchNumber = @ + 1,
                  !.inFlight = @ \cup {[batchId |-> bp.batchNumber + 1, items |-> bp.batch]},
                  !.batches = [m \in Messages |->
                                 IF m \in Range(bp.batch) THEN @[m] \cup {bp.batchNumber + 1}
                                 ELSE @[m]]]

\* flush(reason) up to its await: nothing when a batch is being processed or
\* the buffer is empty; otherwise the buffer becomes the current batch, is
\* emptied, and processFn is called on the batch.
Flush(bp) ==
  IF bp.processing \/ bp.batch = <<>> THEN bp
  ELSE [bp EXCEPT !.processing = TRUE, !.batch = <<>>, !.batchNumber = @ + 1,
                  !.inFlight = @ \cup {[batchId |-> bp.batchNumber + 1, items |-> bp.batch]},
                  !.batches = [m \in Messages |->
                                 IF m \in Range(bp.batch) THEN @[m] \cup {bp.batchNumber + 1}
                                 ELSE @[m]]]

\* handleReservationExpire (batched) -> addMessage: the delivery is pushed
\* onto the buffer, and flush is called when the buffer has reached batchSize.
AddMessage ==
  /\ batchProcessor.added < MaxMessages
  /\ LET m == batchProcessor.added + 1
         bp == [batchProcessor EXCEPT !.added = m, !.batch = Append(@, m)]
     IN batchProcessor' = IF Len(bp.batch) >= BatchSize THEN Flush(bp) ELSE bp
  /\ UNCHANGED <<now, seats, reservations, sales, tx, ops, expirations, events, amqpChannel, retry>>

\* The interval timer fires: flush when the buffer is not empty.
FlushTimerFires ==
  /\ batchProcessor.flushTimer
  /\ batchProcessor.batch # <<>>
  /\ batchProcessor' = Flush(batchProcessor)
  /\ UNCHANGED <<now, seats, reservations, sales, tx, ops, expirations, events, amqpChannel, retry>>

\* Variant: every message is acked or nacked by its own result.
Decision_PerMessage(results, i) ==
  IF results[i] = "fulfilled" THEN "ack" ELSE "nack"

\* The decision for item i of a batch whose expireReservation calls settled
\* with the given results: processFn throws when any of them was rejected,
\* and flush then nacks every message of the batch with requeue; otherwise
\* it acks every message.
Decision(results, i) ==
  IF \E j \in DOMAIN results : results[j] = "rejected" THEN "nack" ELSE "ack"

\* Promise.allSettled of the expireReservation calls of batch b settles with
\* the given results; processFn returns or throws, flush acks or nacks the
\* messages of the batch and clears the processing flag. A stop() that awaits
\* this flush returns.
ProcessFnSettles(b, results) ==
  /\ b \in batchProcessor.inFlight
  /\ DOMAIN results = DOMAIN b.items
  /\ batchProcessor' =
       [batchProcessor EXCEPT
          !.processing = FALSE,
          !.inFlight = @ \ {b},
          !.outcome = [m \in Messages |->
                         IF \E i \in DOMAIN b.items : b.items[i] = m
                         THEN results[CHOOSE i \in DOMAIN b.items : b.items[i] = m]
                         ELSE @[m]],
          !.decisions = [m \in Messages |->
                           IF \E i \in DOMAIN b.items : b.items[i] = m
                           THEN Append(@[m], Decision(results,
                                   CHOOSE i \in DOMAIN b.items : b.items[i] = m))
                           ELSE @[m]],
          !.stop = IF @ = "awaiting" /\ batchProcessor.stopFlush = b.batchId
                   THEN "returned" ELSE @]
  /\ UNCHANGED <<now, seats, reservations, sales, tx, ops, expirations, events, amqpChannel, retry>>

\* onModuleDestroy -> stop(): the timer is cleared, then flush('shutdown') is
\* awaited. When that flush returns at once (a batch is being processed or
\* the buffer is empty) stop returns at once.
Stop ==
  /\ batchProcessor.stop = "no"
  /\ LET bp == Flush([batchProcessor EXCEPT !.flushTimer = FALSE])
         started == bp.batchNumber # batchProcessor.batchNumber
     IN batchProcessor' = [bp EXCEPT !.stop = IF started THEN "awaiting" ELSE "returned",
                                     !.stopFlush = IF started THEN bp.batchNumber ELSE 0,
                                     !.addedBeforeStop = bp.added]
  /\ UNCHANGED <<now, seats, reservations, sales, tx, ops, expirations, events, amqpChannel, retry>>

\* The results with which the expireReservation calls of a batch can settle.
SettledResults(b) == [DOMAIN b.items -> {"fulfilled", "rejected"}]

\* The batched consumer while the service runs: deliveries, the timer, and
\* the batches settling.
BatchNext ==
  \/ AddMessage
  \/ FlushTimerFires
  \/ \E b \in batchProcessor.inFlight :
       \E results \in SettledResults(b) : ProcessFnSettles(b, results)

\* The timer keeps firing and every batch handed to processFn settles.
BatchSpec ==
  /\ Init
  /\ [][BatchNext]_vars
  /\ WF_vars(FlushTimerFires)
  /\ WF_vars(\E b \in batchProcessor.inFlight :
               \E results \in SettledResults(b) : ProcessFnSettles(b, results))

\* The batched consumer with a shutdown at any moment.
ShutdownNext ==
  \/ BatchNext
  \/ Stop

ShutdownSpec == Init /\ [][ShutdownNext]_vars

\* ------------------------------------------------------------------------
\* retryWithBackoff
\* ------------------------------------------------------------------------
\* The errors the wrapped function throws, by class: the two HTTP exceptions
\* the service throws for business errors and the error of a failed statement.
ErrorClasses == {"NotFoundException", "BadRequestException", "QueryFailedError"}

\* error instanceof ErrorClass.
InstanceOf(error, ErrorClass) ==
  \/ ErrorClass = error
  \/ ErrorClass = "HttpException" /\ error \in {"NotFoundException", "BadRequestException"}
  \/ ErrorClass = "Error"

\* The options callers pass: the defaults, or other limits on the attempts,
\* another cap on the delay and a list of retryable classes.
RetryOptions ==
  {[defaultOptions EXCEPT !.maxAttempts = n, !.maxDelayMs = d, !.retryableErrors = c] :
     n \in 1..MaxAttempts,
     d \in {150, defaultOptions.maxDelayMs},
     c \in {{}, {"QueryFailedError"}, {"HttpException"},
            {"QueryFailedError", "NotFoundException"}}}

RECURSIVE Pow(_, _)
Pow(b, n) == IF n = 0 THEN 1 ELSE b * Pow(b, n - 1)

\* Math.min(initialDelayMs * Math.pow(backoffMultiplier, attempt - 1), maxDelayMs)
DelayMs(opts, attempt) ==
  Min(opts.initialDelayMs * Pow(opts.backoffMultiplier, attempt - 1), opts.maxDelayMs)

\* The error is retryable: the list of retryable classes is empty, or the
\* error is an instance of one of them.
IsRetryable(opts, error) ==
  opts.retryableErrors = {} \/ \E c \in opts.retryableErrors : InstanceOf(error, c)

\* Variant: the error of the first attempt is the one that is thrown.
LastError_First(errors) == errors[1]

\* lastError when the catch block throws: the error of the attempt that has
\* just failed.
LastError(errors) == errors[Len(errors)]

\* retryWithBackoff(fn, options): the options are merged over the defaults
\* and the loop starts with attempt 1, about to call fn.
RetryWithBackoff(options) ==
  /\ retry.pc = "idle"
  /\ retry' = [retry EXCEPT !.pc = "calling", !.opts = options, !.attempt = 1]
  /\ UNCHANGED <<now, seats, reservations, sales, tx, ops, expirations, events, amqpChannel, batchProcessor>>

\* return await fn(): fn returns.
FnReturns ==
  /\ retry.pc = "calling"
  /\ retry' = [retry EXCEPT !.pc = "returned", !.calls = @ + 1]
  /\ UNCHANGED <<now, seats, reservations, sales, tx, ops, expirations, events, amqpChannel, batchProcessor>>

\* fn throws: the catch block rethrows when the error is not retryable or
\* this was the last attempt, otherwise it computes the delay, calls onRetry
\* and goes to sleep.
FnThrows(error) ==
  /\ retry.pc = "calling"
  /\ retry' = IF ~IsRetryable(retry.opts, error) \/ retry.attempt >= retry.opts.maxAttempts
               THEN [retry EXCEPT !.pc = "thrown", !.calls = @ + 1,
                                  !.errors = Append(@, error),
                                  !.thrown = LastError(Append(retry.errors, error))]
               ELSE [retry EXCEPT !.pc = "sleeping", !.calls = @ + 1,
                                  !.errors = Append(@, error),
                                  !.delayMs = DelayMs(retry.opts, retry.attempt)]
  /\ UNCHANGED <<now, seats, reservations, sales, tx, ops, expirations, events, amqpChannel, batchProcessor>>

\* The timer fires: the next turn of the loop.
RetryWakes ==
  /\ retry.pc = "sleeping"
  /\ retry' = [retry EXCEPT !.pc = "calling", !.attempt = @ + 1]
  /\ UNCHANGED <<now, seats, reservations, sales, tx, ops, expirations, events, amqpChannel, batchProcessor>>

\* One call of retryWithBackoff with any options around a function that
\* returns or throws any of the errors at each attempt.
RetryNext ==
  \/ \E options \in RetryOptions : RetryWithBackoff(options)
  \/ FnReturns
  \/ \E error \in ErrorClasses : FnThrows(error)
  \/ RetryWakes

RetrySpec == Init /\ [][RetryNext]_vars

\* The wrapped function terminates and the timer of a sleep fires.
RetryLiveSpec ==
  /\ Init
  /\ [][RetryNext]_vars
  /\ WF_vars(FnReturns \/ \E error \in ErrorClasses : FnThrows(error))
  /\ WF_vars(RetryWakes)

TypeOK ==
  /\ now \in 0..(MaxTicks * ClockStep)
  /\ seats \in [Seats -> SeatStatus]
  /\ \A r \in ReservationIds :
       /\ reservations[r].seatId \in Seats
       /\ reservations[r].userId \in Users
       /\ reservations[r].status \in ReservationStatus
  /\ \A i \in SaleIds : sales[i].reservationId \in ReservationIds
  /\ ops \in 0..MaxOps
  /\ \A m \in expirations : m.reservationId \in ReservationIds
  /\ \A e \in events : e.name \in EventNames
  /\ amqpChannel \in ChannelStates
  /\ batchProcessor.processing \in BOOLEAN
  /\ batchProcessor.flushTimer \in BOOLEAN
  /\ Range(batchProcessor.batch) \subseteq 1..batchProcessor.added
  /\ batchProcessor.stop \in {"no", "awaiting", "returned"}
  /\ retry.pc \in {"idle", "calling", "sleeping", "returned", "thrown"}
  /\ retry.attempt \in 0..retry.opts.maxAttempts
  /\ retry.calls \in 0..retry.opts.maxAttempts

\* ------------------------------------------------------------------------
\* Properties
\* ------------------------------------------------------------------------
ReservationsOfSeat(s, status) ==
  {r \in ReservationIds : reservations[r].seatId = s /\ reservations[r].status = status}
SalesOfReservation(r) == {i \in SaleIds : sales[i].reservationId = r}
SalesOfSeat(s) == {i \in SaleIds : sales[i].seatId = s}

\* A handler has finished serving a request of the given kind.
Done(p, op) == tx[p].op = op /\ tx[p].pc = "done"

\* Two requests that ran concurrently with each other and with nothing else.
ConcurrentPair(p, q) ==
  /\ p # q
  /\ tx[p].overlap = {q}
  /\ tx[q].overlap = {p}

\* C1: in every reachable state each seat is referenced by at most one sale:
\* a seat is never sold twice, whatever the interleaving of holds, payments
\* and expirations.
C1_SeatSoldAtMostOnce ==
  \A s \in Seats : Cardinality(SalesOfSeat(s)) <= 1

\* C1 case: a whole group has been sold while a second payment for it was
\* served as well.
C1_Witness ==
  /\ Len(sales) = 2
  /\ \E p \in Procs : Done(p, "confirm") /\ tx[p].result = "idempotent"

\* The two requests of a concurrent pair are holds that share a seat, every
\* seat either of them asks for was AVAILABLE when it was called, and the seat
\* has not been released in between: no hold that either made has expired (a
\* call that outlasts the other's hold is no longer competing with it).
C2_Pair(p, q) ==
  /\ ConcurrentPair(p, q)
  /\ Done(p, "create") /\ Done(q, "create")
  /\ tx[p].pre /\ tx[q].pre
  /\ Range(tx[p].seatNumbers) \cap Range(tx[q].seatNumbers) # {}
  /\ \A r \in tx[p].created \cup tx[q].created : reservations[r].status # "EXPIRED"
C2_Won(p, q) ==
  /\ tx[p].result = "ok"
  /\ \A n \in Range(tx[p].seatNumbers) \cap Range(tx[q].seatNumbers) :
       \E r \in tx[p].created :
         /\ reservations[r].seatId = SeatByNumber(SessionId, n)
         /\ reservations[r].userId = tx[p].userId
C2_Lost(q) ==
  /\ tx[q].result = "BadRequestException: Seat is not available"
  /\ tx[q].created = {}

\* C2: of two holds that run concurrently for the same AVAILABLE seat, with
\* no expiration releasing the seat between them, exactly one commits a
\* reservation for the seat and the other fails with "not available" and
\* commits no reservation.
C2_ExactlyOneHoldWins ==
  \A p, q \in Procs :
    C2_Pair(p, q) =>
      \/ C2_Won(p, q) /\ C2_Lost(q)
      \/ C2_Won(q, p) /\ C2_Lost(p)

\* C2 case: two such holds have both finished.
C2_Witness ==
  \E p, q \in Procs : C2_Pair(p, q) /\ C2_Won(p, q) /\ C2_Lost(q)

\* C3: every RESERVED seat is referenced by exactly one PENDING reservation.
C3_ReservedHasOnePending ==
  \A s \in Seats :
    seats[s] = "RESERVED" => Cardinality(ReservationsOfSeat(s, "PENDING")) = 1

\* C3 case: a seat is held again after an earlier hold on it expired.
C3_Witness ==
  \E s \in Seats :
    /\ seats[s] = "RESERVED"
    /\ ReservationsOfSeat(s, "EXPIRED") # {}
    /\ ReservationsOfSeat(s, "PENDING") # {}

\* C4: no AVAILABLE seat is referenced by a PENDING reservation.
C4_AvailableHasNoPending ==
  \A s \in Seats :
    seats[s] = "AVAILABLE" => ReservationsOfSeat(s, "PENDING") = {}

\* C4 case: a seat is AVAILABLE again after its hold expired, while another
\* seat is still held.
C4_Witness ==
  \E s, s2 \in Seats :
    /\ seats[s] = "AVAILABLE"
    /\ ReservationsOfSeat(s, "EXPIRED") # {}
    /\ seats[s2] = "RESERVED"

\* C5: every SOLD seat is referenced by exactly one CONFIRMED reservation,
\* and exactly one sale references that reservation.
C5_SoldHasOneConfirmedAndSale ==
  \A s \in Seats :
    seats[s] = "SOLD" =>
      /\ Cardinality(ReservationsOfSeat(s, "CONFIRMED")) = 1
      /\ \A r \in ReservationsOfSeat(s, "CONFIRMED") :
           Cardinality(SalesOfReservation(r)) = 1

\* C5 case: every seat of a two-seat hold has been sold.
C5_Witness ==
  /\ \A s \in Seats : seats[s] = "SOLD"
  /\ Len(sales) = NumSeats

\* The reservations made by the same call of createReservation as r.
BookingGroup(r) == {x \in ReservationIds : reservations[x].holdId = reservations[r].holdId}
IsSold(r) ==
  /\ reservations[r].status = "CONFIRMED"
  /\ seats[reservations[r].seatId] = "SOLD"
  /\ SalesOfReservation(r) # {}

\* C6: group atomicity. In every reachable state either every reservation of
\* a booking group is CONFIRMED with its seat SOLD and a sale, or none of the
\* group is CONFIRMED.
C6_GroupAtomicity ==
  \A r \in ReservationIds :
    \/ \A x \in BookingGroup(r) : IsSold(x)
    \/ \A x \in BookingGroup(r) : reservations[x].status # "CONFIRMED"

\* The two requests of a concurrent pair are a payment by the owner and an
\* expiration of the same reservation, which was PENDING when each was called.
C7_Pair(p, q) ==
  /\ ConcurrentPair(p, q)
  /\ Done(p, "confirm") /\ Done(q, "expire")
  /\ tx[p].reservationId = tx[q].reservationId
  /\ tx[p].pre /\ tx[q].pre
C7_ConfirmWon(p, q) ==
  LET r == tx[p].reservationId
  IN /\ tx[p].result = "ok"
     /\ tx[q].result \in {"skipped: not pending", "skipped: too early"}
     /\ reservations[r].status = "CONFIRMED"
     /\ seats[reservations[r].seatId] = "SOLD"
C7_ExpireWon(p, q) ==
  LET r == tx[p].reservationId
  IN /\ tx[q].result = "expired"
     /\ tx[p].result \in {"BadRequestException: Reservation is not pending",
                          "BadRequestException: Reservation has expired"}
     /\ reservations[r].status = "EXPIRED"
     /\ seats[reservations[r].seatId] = "AVAILABLE"
C7_BothRefused(p, q) ==
  LET r == tx[p].reservationId
  IN /\ tx[p].result = "BadRequestException: Reservation has expired"
     /\ tx[q].result = "skipped: too early"
     /\ reservations[r].status = "PENDING"
     /\ seats[reservations[r].seatId] = "RESERVED"

\* C7 as stated: when a payment and an expiration of the same PENDING
\* reservation have run concurrently, exactly one of them has taken effect:
\* the reservation is CONFIRMED with its seat SOLD and the expiration changed
\* nothing, or it is EXPIRED with its seat AVAILABLE and the payment failed
\* with a conflict.
C7_ExactlyOneTakesEffect ==
  [][\A p, q \in Procs :
       (~C7_Pair(p, q) /\ C7_Pair(p, q)') =>
         (C7_ConfirmWon(p, q) \/ C7_ExpireWon(p, q))']_vars

\* C7 as amended: at most one of the two takes effect, with the outcomes
\* above, and both are refused, leaving the reservation PENDING and its seat
\* RESERVED, when the expiration read the clock at or before the deadline and
\* the payment read it after the deadline.
C7_AtMostOneTakesEffect ==
  [][\A p, q \in Procs :
       (~C7_Pair(p, q) /\ C7_Pair(p, q)') =>
         (C7_ConfirmWon(p, q) \/ C7_ExpireWon(p, q) \/ C7_BothRefused(p, q))']_vars

\* C7 case: the expiration won and the payment, which ran concurrently, found
\* the reservation no longer pending.
C7_Witness ==
  \E p, q \in Procs :
    /\ C7_Pair(p, q)
    /\ C7_ExpireWon(p, q)
    /\ tx[p].result = "BadRequestException: Reservation is not pending"

\* C8: no two sales reference the same reservation.
C8_OneSalePerReservation ==
  \A i, j \in SaleIds : sales[i].reservationId = sales[j].reservationId => i = j

\* C8 case: two payments for the same reservation, or for two reservations
\* of one group, ran concurrently and the reservation has its sale.
C8_Witness ==
  \E p, q \in Procs :
    /\ ConcurrentPair(p, q)
    /\ Done(p, "confirm") /\ Done(q, "confirm")
    /\ tx[p].result = "ok"
    /\ SalesOfReservation(tx[q].reservationId) # {}

\* C9: every CONFIRMED reservation has a sale that references it, and every
\* sale references a CONFIRMED reservation.
C9_ConfirmedIffSale ==
  /\ \A r \in ReservationIds :
       reservations[r].status = "CONFIRMED" => SalesOfReservation(r) # {}
  /\ \A i \in SaleIds : reservations[sales[i].reservationId].status = "CONFIRMED"

\* C9 case: one reservation is CONFIRMED with its sale while another one,
\* which has no sale, is EXPIRED or PENDING.
C9_Witness ==
  \E r, r2 \in ReservationIds :
    /\ reservations[r].status = "CONFIRMED"
    /\ SalesOfReservation(r) # {}
    /\ reservations[r2].status # "CONFIRMED"
    /\ SalesOfReservation(r2) = {}

\* A handler commits a payment, or an expiration, in this step.
CommitsPayment == \E p \in Procs : tx[p].pc = "cp_commit" /\ tx'[p].pc = "cp_post"
CommitsExpiration == \E p \in Procs : tx[p].pc = "ex_commit" /\ tx'[p].pc = "ex_post"

\* C10: reservation status is monotonic. The only changes of status are
\* PENDING to CONFIRMED, made by a payment, and PENDING to EXPIRED, made by an
\* expiration; no reservation is removed, and none is ever CANCELLED.
C10_StatusMonotonic ==
  [][/\ Len(reservations') >= Len(reservations)
     /\ \A r \in 1..Len(reservations') : reservations'[r].status # "CANCELLED"
     /\ \A r \in ReservationIds :
          LET a == reservations[r].status
              b == reservations'[r].status
          IN \/ a = b
             \/ a = "PENDING" /\ b = "CONFIRMED" /\ CommitsPayment
             \/ a = "PENDING" /\ b = "EXPIRED" /\ CommitsExpiration]_vars

\* C10 case: a payment was attempted on a reservation that was EXPIRED and
\* was refused.
C10_Witness ==
  /\ \E r \in ReservationIds : reservations[r].status = "EXPIRED"
  /\ \E p \in Procs :
       /\ Done(p, "confirm")
       /\ tx[p].result = "BadRequestException: Reservation is not pending"

\* A handler commits a hold in this step.
CommitsHold == \E p \in Procs : tx[p].pc = "ch_commit" /\ tx'[p].pc = "ch_post"

\* C11: a seat changes status only from AVAILABLE to RESERVED, when a hold
\* commits, from RESERVED to SOLD, when a payment commits, and from RESERVED
\* to AVAILABLE, when an expiration commits. So a SOLD seat never changes
\* again and a seat becomes AVAILABLE again only through an expiration.
C11_SeatTransitions ==
  [][\A s \in Seats :
       \/ seats'[s] = seats[s]
       \/ seats[s] = "AVAILABLE" /\ seats'[s] = "RESERVED" /\ CommitsHold
       \/ seats[s] = "RESERVED" /\ seats'[s] = "SOLD" /\ CommitsPayment
       \/ seats[s] = "RESERVED" /\ seats'[s] = "AVAILABLE" /\ CommitsExpiration]_vars

\* C11 case: a seat is SOLD and an expiration for its reservation, attempted
\* after the payment, was skipped.
C11_Witness ==
  /\ \E s \in Seats : seats[s] = "SOLD"
  /\ \A r \in ReservationIds : reservations[r].status = "CONFIRMED"
  /\ \E p \in Procs : Done(p, "expire") /\ tx[p].result = "skipped: not pending"

\* The seat rows a hold has locked are those of a prefix of its labels, and
\* its labels are in the order of Array.prototype.sort.
C12_LocksInSortedOrder(p) ==
  LET labels == tx[p].seatNumbers
      row(i) == SeatRow(SeatByNumber(SessionId, labels[i]))
  IN /\ \A i, j \in 1..Len(labels) : i < j => ~LexLess(labels[j], labels[i])
     /\ \E k \in 0..Len(labels) : tx[p].held = {row(i) : i \in 1..k}

\* Two holds that ran concurrently for the same set of seats, all AVAILABLE
\* when each was called.
C12_Pair(p, q) ==
  /\ ConcurrentPair(p, q)
  /\ Done(p, "create") /\ Done(q, "create")
  /\ tx[p].pre /\ tx[q].pre
  /\ tx[p].seatNumbers = tx[q].seatNumbers
C12_Won(p) ==
  /\ tx[p].result = "ok"
  /\ Cardinality(tx[p].created) = Len(tx[p].seatNumbers)
C12_Lost(q) ==
  /\ tx[q].result = "BadRequestException: Seat is not available"
  /\ tx[q].created = {}

\* C12: concurrent holds, whatever the order of the labels in their requests,
\* lock seat rows in sorted label order and never wait for each other in a
\* cycle; every hold returns or throws; and of two concurrent holds for the
\* same set of AVAILABLE seats exactly one succeeds and the other fails with
\* "not available".
C12_HoldsNeverDeadlock ==
  /\ [](\A p \in Procs : C12_LocksInSortedOrder(p) /\ ~InDeadlock(p))
  /\ \A p \in Procs : Running(tx[p]) ~> ~Running(tx[p])
  /\ [](\A p, q \in Procs :
         C12_Pair(p, q) => \/ C12_Won(p) /\ C12_Lost(q)
                           \/ C12_Won(q) /\ C12_Lost(p))

\* C12 case: two concurrent holds for the same two seats have finished, one
\* after waiting for the other's seat locks.
C12_Witness ==
  \E p, q \in Procs :
    /\ C12_Pair(p, q)
    /\ Len(tx[p].seatNumbers) = 2
    /\ C12_Won(p) /\ C12_Lost(q)

\* The errors of a hold that names a missing screening, a missing seat or a
\* seat that is not AVAILABLE.
C13_HoldErrors ==
  {"NotFoundException: Session not found",
   "NotFoundException: Seat not found",
   "BadRequestException: Seat is not available"}

\* C13: a hold that fails leaves no trace. Every step of createReservation
\* before its commit, the seats it has already marked RESERVED in its
\* transaction included, leaves the committed seats, reservations and sales
\* as they are, and so does the step in which it throws for a missing
\* screening, a missing seat or a seat that is not AVAILABLE; a hold that
\* ended with one of these errors has created no reservation.
C13_NoPartialHolds ==
  [][\A p \in Procs :
       /\ (/\ tx'[p] # tx[p]
           /\ tx'[p].op = "create"
           /\ \/ tx[p].pc = "ch_lockSeat"
              \/ tx'[p].pc = "done" /\ tx'[p].result \in C13_HoldErrors)
          => /\ seats' = seats
             /\ reservations' = reservations
             /\ sales' = sales
       /\ (tx'[p].op = "create" /\ tx'[p].pc = "done"
             /\ tx'[p].result \in C13_HoldErrors)
          => tx'[p].created = {}]_vars

\* C13 case: a hold for two seats has failed at its second label, after it
\* had marked the seat of its first label RESERVED in its transaction; that
\* seat is AVAILABLE and has no reservation.
C13_Witness ==
  \E p \in Procs :
    /\ Done(p, "create")
    /\ tx[p].result = "BadRequestException: Seat is not available"
    /\ Len(tx[p].seatNumbers) = 2
    /\ tx[p].seatNumbers[1] # tx[p].seatNumbers[2]
    /\ LET s == SeatByNumber(SessionId, tx[p].seatNumbers[1])
       IN /\ seats[s] = "AVAILABLE"
          /\ \A r \in ReservationIds : reservations[r].seatId # s

\* The expiration message of reservation r waits for a TTL that runs out
\* only after the last reading of the clock.
C14_BeyondTheClock(r) ==
  \E m \in expirations :
    /\ m.reservationId = r
    /\ m.queue = "wait"
    /\ now + m.ttl > MaxTicks * ClockStep

\* The hold is EXPIRED and its seat was released: the seat is AVAILABLE or
\* has been held again since.
C14_Released(r) ==
  /\ reservations[r].status = "EXPIRED"
  /\ \/ seats[reservations[r].seatId] = "AVAILABLE"
     \/ \E n \in ReservationIds : n > r /\ reservations[n].seatId = reservations[r].seatId

\* C14: when the broker delivers every scheduled message after its delay and
\* the consumer is scheduled fairly, every hold of a successful
\* createReservation that is never paid for is eventually EXPIRED, its seat
\* released by that expiration. (No payment is made in these runs, holds stay
\* EXPIRED and finitely many are created, so every hold is eventually EXPIRED
\* exactly when eventually all of them are for good.)
C14_HoldEventuallyExpires ==
  <>[](\A r \in ReservationIds : C14_Released(r) \/ C14_BeyondTheClock(r))

\* What an expiration finds when its query returns: the reservation exists,
\* is PENDING and the clock is strictly after its expiresAt.
C15_Effective(r) ==
  /\ r \in ReservationIds
  /\ reservations[r].status = "PENDING"
  /\ now > reservations[r].expiresAt

C15_Skips == {"skipped: not found", "skipped: not pending", "skipped: too early"}

\* The store has failed the handler's statement to end a lock-wait cycle.
C15_Aborted(p) == tx'[p].result = "QueryFailedError: deadlock detected"

\* C15: expireReservation changes state exactly when the reservation exists,
\* is PENDING and the clock is strictly after its expiresAt: then its commit
\* sets the reservation EXPIRED and its seat AVAILABLE and changes nothing
\* else; otherwise the call commits and returns without changing any seat,
\* reservation or sale.
C15_ExpireEffectiveIff ==
  [][\A p \in Procs :
       LET r == tx[p].reservationId
       IN /\ (tx[p].pc = "ex_findReservation" /\ tx'[p].pc # "ex_findReservation"
                /\ ~C15_Aborted(p))
             => /\ UNCHANGED <<seats, reservations, sales>>
                /\ IF C15_Effective(r)
                   THEN tx'[p].pc = "ex_commit"
                   ELSE /\ tx'[p].pc = "done"
                        /\ tx'[p].result \in C15_Skips
                        /\ ~tx'[p].active
          /\ (tx[p].pc = "ex_commit" /\ tx'[p].pc # "ex_commit")
             => /\ tx'[p].pc = "ex_post"
                /\ reservations' = [reservations EXCEPT ![r].status = "EXPIRED"]
                /\ seats' = [seats EXCEPT ![reservations[r].seatId] = "AVAILABLE"]
                /\ sales' = sales
          /\ (tx[p].op = "expire" /\ tx'[p] # tx[p] /\ tx[p].pc # "ex_commit")
             => UNCHANGED <<seats, reservations, sales>>]_vars

\* C15 case: one expiration came no later than expiresAt and was skipped, a
\* later one took effect.
C15_Witness ==
  \E p, q \in Procs :
    /\ Done(p, "expire") /\ tx[p].result = "skipped: too early"
    /\ Done(q, "expire") /\ tx[q].result = "expired"
    /\ \E r \in ReservationIds :
         /\ reservations[r].status = "EXPIRED"
         /\ seats[reservations[r].seatId] = "AVAILABLE"

\* C16: expireReservation is idempotent. A call that finds the reservation
\* already EXPIRED, be it a redelivery after the first effective call or one
\* that waited for the first call's locks, returns "not pending" and changes
\* no seat, reservation or sale; an expiration commits only for a reservation
\* that is PENDING, so it takes effect at most once, and an EXPIRED
\* reservation stays EXPIRED.
C16_ExpireIdempotent ==
  [][/\ \A p \in Procs :
          LET r == tx[p].reservationId
          IN /\ (/\ tx[p].pc = "ex_findReservation"
                 /\ tx'[p].pc # "ex_findReservation"
                 /\ ~C15_Aborted(p)
                 /\ r \in ReservationIds
                 /\ reservations[r].status = "EXPIRED")
                => /\ tx'[p].pc = "done"
                   /\ tx'[p].result = "skipped: not pending"
                   /\ UNCHANGED <<seats, reservations, sales>>
             /\ (tx[p].pc = "ex_commit" /\ tx'[p].pc # "ex_commit")
                => /\ reservations[r].status = "PENDING"
                   /\ reservations'[r].status = "EXPIRED"
     /\ \A r \in ReservationIds :
          reservations[r].status = "EXPIRED" => reservations'[r] = reservations[r]]_vars

\* C16 case: two deliveries for the same reservation were handled
\* concurrently; one expired it, the other found it EXPIRED and did nothing.
C16_Witness ==
  \E p, q \in Procs :
    /\ ConcurrentPair(p, q)
    /\ Done(p, "expire") /\ Done(q, "expire")
    /\ tx[p].reservationId = tx[q].reservationId
    /\ tx[p].result = "expired"
    /\ tx[q].result = "skipped: not pending"
    /\ reservations[tx[p].reservationId].status = "EXPIRED"
    /\ seats[reservations[tx[p].reservationId].seatId] = "AVAILABLE"

\* A payment call has returned a sale.
C17_Returned(p) ==
  /\ Done(p, "confirm")
  /\ tx[p].result \in {"ok", "idempotent"}

\* C17: confirmPayment is idempotent. A call by the owner that finds the
\* reservation CONFIRMED, whether an earlier call named it or confirmed it as
\* a sibling of the one it named, looks up the sale of that reservation and
\* returns it: the one sale recorded for the reservation, with the
\* attributes it was recorded with, since a sale row never changes. The call
\* creates no sale and changes no seat and no reservation. Two calls that
\* return sales of the same reservation return the same sale.
C17_ConfirmIdempotent ==
  /\ [][/\ \A p \in Procs :
            LET r == tx[p].reservationId
            IN /\ (/\ tx[p].pc = "cp_findReservation"
                   /\ tx'[p].pc # "cp_findReservation"
                   /\ ~C15_Aborted(p)
                   /\ FindsReservation(r, tx[p].userId)
                   /\ reservations[r].status = "CONFIRMED")
                  => /\ tx'[p].pc = "cp_findSale"
                     /\ UNCHANGED <<seats, reservations, sales>>
               /\ (tx[p].pc = "cp_findSale" /\ tx'[p].pc # "cp_findSale")
                  => /\ tx'[p].pc = "done"
                     /\ tx'[p].result = "idempotent"
                     /\ SalesOfReservation(r) = {tx'[p].saleId}
                     /\ sales[tx'[p].saleId].userId = tx[p].userId
                     /\ UNCHANGED <<seats, reservations, sales>>
               /\ (tx[p].pc = "cp_commit" /\ tx'[p].pc = "cp_post")
                  => /\ tx'[p].saleId \in DOMAIN sales'
                     /\ sales'[tx'[p].saleId].reservationId = r
       /\ \A i \in SaleIds : sales'[i] = sales[i]]_vars
  /\ [](\A p, q \in Procs :
          (/\ C17_Returned(p) /\ C17_Returned(q)
           /\ sales[tx[p].saleId].reservationId = sales[tx[q].saleId].reservationId)
          => tx[p].saleId = tx[q].saleId)

\* C17 case: a payment for one reservation of a two-seat hold has confirmed
\* both; a later payment call for the sibling has returned the sibling's
\* sale, already recorded, and no third sale exists.
C17_Witness ==
  \E p, q \in Procs :
    /\ Done(p, "confirm") /\ tx[p].result = "ok"
    /\ Done(q, "confirm") /\ tx[q].result = "idempotent"
    /\ tx[p].saleId # tx[q].saleId
    /\ Len(sales) = 2
    /\ sales[tx[p].saleId].paidAt = sales[tx[q].saleId].paidAt

\* The first query of a payment returns in this step of handler p.
C18_QueryReturns(p) ==
  /\ tx[p].pc = "cp_findReservation"
  /\ tx'[p].pc # "cp_findReservation"
  /\ ~C15_Aborted(p)

\* C18: a payment call by a user who is not the buyer of the reservation
\* ends exactly as a call for a reservation that does not exist: "Reservation
\* not found", with no seat, reservation or sale changed. The reservation is
\* as it was, so a call by its owner that comes while it is PENDING and the
\* clock is not after expiresAt goes on to confirm it.
C18_OwnershipIsolation ==
  [][\A p \in Procs :
       LET r == tx[p].reservationId
           missing == r \notin ReservationIds
           foreign == r \in ReservationIds /\ reservations[r].userId # tx[p].userId
           owned == r \in ReservationIds /\ reservations[r].userId = tx[p].userId
       IN /\ (C18_QueryReturns(p) /\ (missing \/ foreign))
             => /\ tx'[p].pc = "done"
                /\ tx'[p].result = "NotFoundException: Reservation not found"
                /\ tx'[p].saleId = 0
                /\ UNCHANGED <<seats, reservations, sales>>
          /\ (/\ C18_QueryReturns(p) /\ owned
              /\ reservations[r].status = "PENDING"
              /\ now <= reservations[r].expiresAt)
             => tx'[p].pc = "cp_findRelated"
          /\ (tx[p].pc = "cp_post" /\ tx'[p].pc = "done" /\ tx'[p].result = "ok")
             => sales[tx[p].saleId].userId = reservations[sales[tx[p].saleId].reservationId].userId]_vars

\* C18 case: a payment call by another user and one by the owner ran for the
\* same reservation; the first ended with "not found", the owner's confirmed
\* the reservation.
C18_Witness ==
  \E p, q \in Procs :
    /\ ConcurrentPair(p, q)
    /\ Done(p, "confirm") /\ Done(q, "confirm")
    /\ tx[p].reservationId = tx[q].reservationId
    /\ tx[p].reservationId \in ReservationIds
    /\ tx[p].userId # reservations[tx[p].reservationId].userId
    /\ tx[q].userId = reservations[tx[q].reservationId].userId
    /\ tx[p].result = "NotFoundException: Reservation not found"
    /\ tx[q].result = "ok"
    /\ reservations[tx[q].reservationId].status = "CONFIRMED"

\* C19: a payment call by the owner for a reservation that is PENDING when
\* the clock is strictly after its expiresAt is refused with "Reservation has
\* expired", and one for a reservation that is EXPIRED or CANCELLED with
\* "Reservation is not pending". In both cases no sale is created and no
\* reservation and no seat changes: the seat of a PENDING reservation whose
\* deadline has passed stays RESERVED.
C19_LatePaymentRefused ==
  [][\A p \in Procs :
       LET r == tx[p].reservationId
           owned == r \in ReservationIds /\ reservations[r].userId = tx[p].userId
       IN /\ (/\ C18_QueryReturns(p) /\ owned
              /\ reservations[r].status = "PENDING"
              /\ now > reservations[r].expiresAt)
             => /\ tx'[p].pc = "done"
                /\ tx'[p].result = "BadRequestException: Reservation has expired"
                /\ tx'[p].saleId = 0
                /\ UNCHANGED <<seats, reservations, sales>>
                /\ seats'[reservations[r].seatId] = "RESERVED"
          /\ (/\ C18_QueryReturns(p) /\ owned
              /\ reservations[r].status \in {"EXPIRED", "CANCELLED"})
             => /\ tx'[p].pc = "done"
                /\ tx'[p].result = "BadRequestException: Reservation is not pending"
                /\ tx'[p].saleId = 0
                /\ UNCHANGED <<seats, reservations, sales>>]_vars

\* C19 case: a payment was refused with "Reservation has expired" for a hold
\* that no expiration has reached: it is PENDING, its deadline has passed and
\* its seat is RESERVED.
C19_Witness ==
  /\ \E p \in Procs :
       /\ Done(p, "confirm")
       /\ tx[p].result = "BadRequestException: Reservation has expired"
  /\ Len(reservations) = 1
  /\ reservations[1].status = "PENDING"
  /\ now > reservations[1].expiresAt
  /\ seats[reservations[1].seatId] = "RESERVED"
  /\ sales = <<>>

\* C20: a createReservation that succeeds for n labels inserts exactly n
\* reservations, the i-th for the seat of the i-th label in sorted order (so
\* for n distinct seats, whatever the order of the request), all PENDING, all
\* of the calling user, all with the one expiresAt computed when the call
\* started as the clock plus the TTL; it returns these n and marks exactly
\* their seats, AVAILABLE before, RESERVED, and changes no other seat and no
\* other reservation.
C20_HoldResult ==
  [][\A p \in Procs :
       /\ (tx[p].pc # "ch_lockSeat" /\ tx'[p].pc = "ch_lockSeat")
          => tx'[p].expiresAt = now + reservationTtl
       /\ (tx[p].pc = "ch_commit" /\ tx'[p].pc # "ch_commit")
          => LET labels == tx[p].seatNumbers
                 n == Len(labels)
                 base == Len(reservations)
                 seat(i) == SeatByNumber(SessionId, labels[i])
             IN /\ tx'[p].pc = "ch_post"
                /\ \A i, j \in 1..n : i < j => LexLess(labels[i], labels[j])
                /\ Len(reservations') = base + n
                /\ tx'[p].created = (base + 1)..(base + n)
                /\ \A r \in 1..base : reservations'[r] = reservations[r]
                /\ \A i \in 1..n :
                     /\ reservations'[base + i].seatId = seat(i)
                     /\ reservations'[base + i].userId = tx[p].userId
                     /\ reservations'[base + i].status = "PENDING"
                     /\ reservations'[base + i].expiresAt = tx[p].expiresAt
                /\ \A s \in Seats :
                     IF \E i \in 1..n : seat(i) = s
                     THEN seats[s] = "AVAILABLE" /\ seats'[s] = "RESERVED"
                     ELSE seats'[s] = seats[s]
                /\ sales' = sales
       /\ (tx[p].pc = "ch_post" /\ tx'[p].pc # "ch_post")
          => /\ tx'[p].pc = "done" /\ tx'[p].result = "ok"
             /\ UNCHANGED <<seats, reservations, sales>>]_vars

\* C20 case: a hold for two seats has committed: two PENDING reservations
\* with one expiresAt, the first for "A10", which sorts before "A2", and both
\* seats RESERVED.
C20_Witness ==
  \E p \in Procs :
    /\ tx[p].pc = "ch_post"
    /\ tx[p].created = {1, 2}
    /\ reservations[1].seatId = SeatByNumber(SessionId, <<65, 49, 48>>)
    /\ reservations[2].seatId = SeatByNumber(SessionId, <<65, 50>>)
    /\ reservations[1].expiresAt = reservations[2].expiresAt
    /\ reservations[1].status = "PENDING" /\ reservations[2].status = "PENDING"
    /\ \A s \in Seats : seats[s] = "RESERVED"

\* The PENDING reservations that carry the booking-group fingerprint of
\* reservation r: same user, same screening (there is one), same expiresAt.
C21_Group(r) ==
  {i \in ReservationIds :
     /\ reservations[i].userId = reservations[r].userId
     /\ reservations[i].expiresAt = reservations[r].expiresAt
     /\ reservations[i].status = "PENDING"}

\* C21: a confirmPayment that succeeds for reservation r, whose booking group
\* has n PENDING reservations when the group query returns, commits exactly n
\* new sales, one per reservation of the group, each for that reservation's
\* seat and user with the amount of the screening's ticketPrice and all with
\* one paidAt; it marks the n reservations CONFIRMED and returns the sale
\* whose reservationId is r.
C21_GroupPayment ==
  [][\A p \in Procs :
       LET r == tx[p].reservationId
       IN /\ (tx[p].pc = "cp_findRelated" /\ tx'[p].pc = "cp_commit")
             => /\ Range(tx'[p].related) = C21_Group(r)
                /\ Len(tx'[p].related) = Cardinality(C21_Group(r))
                /\ r \in C21_Group(r)
          /\ (tx[p].pc = "cp_commit" /\ tx'[p].pc # "cp_commit")
             => LET group == tx[p].related
                    n == Len(group)
                    base == Len(sales)
                IN /\ tx'[p].pc = "cp_post"
                   /\ Len(sales') = base + n
                   /\ \A i \in 1..base : sales'[i] = sales[i]
                   /\ \A i \in 1..n :
                        /\ sales'[base + i].reservationId = group[i]
                        /\ sales'[base + i].seatId = reservations[group[i]].seatId
                        /\ sales'[base + i].userId = reservations[group[i]].userId
                        /\ sales'[base + i].amount = Session.ticketPrice
                        /\ sales'[base + i].paidAt = tx[p].paidAt
                        /\ reservations'[group[i]].status = "CONFIRMED"
                        /\ seats'[reservations[group[i]].seatId] = "SOLD"
                   /\ tx'[p].created = (base + 1)..(base + n)
                   /\ tx'[p].saleId \in tx'[p].created
                   /\ sales'[tx'[p].saleId].reservationId = r
          /\ (tx[p].pc = "cp_post" /\ tx'[p].pc # "cp_post")
             => /\ tx'[p].pc = "done" /\ tx'[p].result = "ok"
                /\ tx'[p].saleId = tx[p].saleId
                /\ UNCHANGED <<seats, reservations, sales>>]_vars

\* C21 case: a payment for the second reservation of a two-seat hold has
\* committed two sales with one paidAt and one amount, and is about to return
\* the second.
C21_Witness ==
  \E p \in Procs :
    /\ tx[p].pc = "cp_post"
    /\ tx[p].reservationId = 2
    /\ tx[p].created = {1, 2}
    /\ tx[p].saleId = 2
    /\ sales[1].reservationId = 1 /\ sales[2].reservationId = 2
    /\ sales[1].paidAt = sales[2].paidAt
    /\ sales[1].amount = Session.ticketPrice /\ sales[2].amount = Session.ticketPrice

\* C22: the fingerprint {userId, screening, expiresAt} identifies one
\* createReservation call: the reservations a confirmPayment for r converts
\* were all created by the call that created r, also when the same user made
\* two calls at the same reading of the clock.
C22_FingerprintIdentifiesCall ==
  [][\A p \in Procs :
       (tx[p].pc = "cp_commit" /\ tx'[p].pc = "cp_post")
       => \A i \in Range(tx[p].related) :
            reservations[i].holdId = reservations[tx[p].reservationId].holdId]_vars

\* Handler p is past its commitTransaction() and about to publish and return.
C23_AfterCommit(p) ==
  /\ tx[p].pc \in {"ch_post", "cp_post", "ex_post"}
  /\ ~tx[p].active

\* What event e of handler p refers to is committed.
C23_RefersToCommitted(e, p) ==
  IF e.name = "reservation.created"
  THEN tx[p].pc = "ch_post" /\ e.id \in tx[p].created /\ e.id \in ReservationIds
  ELSE IF e.name = "payment.confirmed"
  THEN /\ tx[p].pc = "cp_post" /\ e.id \in tx[p].created /\ e.id \in SaleIds
       /\ reservations[sales[e.id].reservationId].status = "CONFIRMED"
       /\ seats[sales[e.id].seatId] = "SOLD"
  ELSE IF e.name = "reservation.expired"
  THEN /\ tx[p].pc = "ex_post" /\ e.id = tx[p].reservationId
       /\ reservations[e.id].status = "EXPIRED"
  ELSE /\ tx[p].pc = "ex_post"
       /\ e.name = "seat.released"
       /\ e.id = reservations[tx[p].reservationId].seatId
       /\ reservations[tx[p].reservationId].status = "EXPIRED"

\* C23: events are published only after the transaction that caused them has
\* committed. No step of a handler whose transaction is open emits an event,
\* so a transaction that is rolled back has emitted none; and every event
\* that appears is emitted by a handler past its commit and names a row that
\* is committed at that moment: a created reservation, a recorded sale of a
\* CONFIRMED reservation and SOLD seat, an EXPIRED reservation and its seat.
C23_EventsAfterCommit ==
  [][/\ \A p \in Procs :
          (tx[p].active /\ tx'[p] # tx[p]) => events' = events
     /\ \A p \in Procs :
          (~Running(tx[p]) /\ Running(tx'[p])) => events' = events
     /\ \A e \in events' \ events :
          \E p \in Procs :
            /\ C23_AfterCommit(p)
            /\ tx'[p].pc = "done"
            /\ C23_RefersToCommitted(e, p)]_vars

\* C23 case: all four events have been emitted, and a hold that was rolled
\* back or a payment that was refused has left none.
C23_Witness ==
  /\ \A n \in EventNames : \E e \in events : e.name = n
  /\ \A e \in events :
       /\ e.name = "reservation.created" => e.id \in ReservationIds
       /\ e.name = "payment.confirmed" => e.id \in SaleIds

\* C24: a session ends with exactly one of commit and rollback: a handler
\* that has returned or thrown has no open transaction, and rollback is never
\* invoked on a session that has committed, which the store answers with
\* TransactionNotStartedError; an error after the commit triggers no rollback.
C24_CommitOrRollbackOnce ==
  \A p \in Procs :
    /\ tx[p].pc = "done" => ~tx[p].active
    /\ tx[p].result # "TransactionNotStartedError"

\* C25: when publishing or scheduling fails after the commit of
\* createReservation, the caller still gets the list of holds and the
\* committed holds stay as they are.
C25_PublishFailureNotSurfaced ==
  [][\A p \in Procs :
       (tx[p].pc = "ch_post" /\ tx'[p].pc = "done" /\ amqpChannel # "open")
         => /\ tx'[p].result = "ok"
            /\ UNCHANGED <<seats, reservations, sales>>]_vars

\* The list names some label more than once.
C26_HasDuplicate(seatNumbers) ==
  \E i, j \in 1..Len(seatNumbers) : i # j /\ seatNumbers[i] = seatNumbers[j]

\* The kind of error a result of createReservation is. The service refuses
\* a seat that is not available as a conflict and a missing screening or seat
\* as not found; the requests here have passed the validation of the DTO, and
\* the service itself refuses nothing as an invalid request.
C26_ErrorKind(result) ==
  IF result = "ok" THEN "NONE"
  ELSE IF result \in {"NotFoundException: Session not found",
                      "NotFoundException: Seat not found"} THEN "NOT_FOUND"
  ELSE IF result = "BadRequestException: Seat is not available" THEN "CONFLICT"
  ELSE IF result = "QueryFailedError: deadlock detected" THEN "STORE_CONFLICT"
  ELSE "INTERNAL"

\* C26: createReservation with a label that occurs twice in seatNumbers is
\* refused as an invalid request, not as a conflict or as not found, and
\* leaves every seat and reservation as it was.
C26_DuplicateLabelsRejected ==
  [][\A p \in Procs :
       (/\ tx[p].op = "create"
        /\ Running(tx[p])
        /\ C26_HasDuplicate(tx[p].seatNumbers)
        /\ tx'[p].pc = "done")
         => /\ C26_ErrorKind(tx'[p].result) = "INVALID_REQUEST"
            /\ UNCHANGED <<seats, reservations>>]_vars

\* The errors the HTTP layer answers with a 4xx status: NotFoundException and
\* BadRequestException.
C27_ClientErrors ==
  {"NotFoundException: Session not found", "NotFoundException: Seat not found",
   "NotFoundException: Reservation not found",
   "BadRequestException: Seat is not available",
   "BadRequestException: Reservation is not pending",
   "BadRequestException: Reservation has expired",
   "BadRequestException: sale record not found"}

\* C27: confirmPayment on a reservation that is CONFIRMED and has no sale
\* fails with an internal error, not with a conflict or not-found error and
\* not with a result, and records no sale.
C27_ConfirmedWithoutSale ==
  [][\A p \in Procs :
       (/\ tx[p].pc = "cp_findSale"
        /\ tx'[p].pc = "done"
        /\ SaleOfReservation(tx[p].reservationId) = 0)
         => /\ tx'[p].result \notin C27_ClientErrors \cup {"ok", "idempotent"}
            /\ tx'[p].saleId = 0
            /\ sales' = sales]_vars

\* C27 case: a payment of a CONFIRMED reservation without a sale has failed
\* and there is still no sale of that reservation.
C27_Witness ==
  \E p \in Procs :
    /\ tx[p].op = "confirm"
    /\ tx[p].pc = "done"
    /\ tx[p].result = "TransactionNotStartedError"
    /\ \E r \in ReservationIds :
         reservations[r].status = "CONFIRMED" /\ SaleOfReservation(r) = 0

\* C28: when a statement of createReservation or confirmPayment fails because
\* the store broke a deadlock, the call is attempted again in a fresh
\* transaction, up to three attempts, and the error reaches the caller only
\* when all have failed. Every call of the model is the first attempt of its
\* request, so the deadlock error of a call is not yet the caller's result.
C28_DeadlockRetried ==
  [][\A p \in Procs :
       (/\ tx[p].op \in {"create", "confirm"}
        /\ Running(tx[p])
        /\ InDeadlock(p)
        /\ tx'[p].result = "QueryFailedError: deadlock detected")
         => tx'[p].pc # "done"]_vars

\* C29: a function whose first failure is a business error (a
\* NotFoundException or a BadRequestException) is called once by
\* retryWithBackoff and the error is thrown at once, whatever the options.
C29_BusinessErrorsNotRetried ==
  (retry.errors # <<>> /\ retry.errors[1] \in {"NotFoundException", "BadRequestException"})
    => (retry.pc = "thrown" /\ retry.calls = 1)

\* The results with which expireReservation returns; anything else is thrown.
C30_Returns ==
  {"expired", "skipped: not found", "skipped: not pending", "skipped: too early"}

\* The message handler p was handed.
C30_Message(p) ==
  {m \in expirations : m.queue = "process" /\ m.reservationId = tx[p].reservationId}

\* Handler p ends the handling of a delivery in this step.
C30_Decides(p) ==
  /\ tx[p].op = "expire"
  /\ tx[p].delivery
  /\ Running(tx[p])
  /\ tx'[p].pc = "done"

\* C30: for each delivered expiration message the consumer calls
\* expireReservation and then decides once: it acks when the call returned,
\* whatever it did, and the message is gone; it nacks with requeue when the
\* call threw, and the message is back in the process queue. No message
\* leaves the queue in any other way, and a delivery that is being handled
\* holds its message until that decision.
C30_AckOrRequeue ==
  [][/\ \A p \in Procs :
          C30_Decides(p) =>
            /\ C30_Message(p) # {}
            /\ IF tx'[p].result \in C30_Returns
               THEN C30_Message(p) \cap expirations' = {}
               ELSE C30_Message(p) \subseteq expirations'
     /\ \A m \in expirations \ expirations' :
          \/ m.queue = "wait"
          \/ \E p \in Procs :
               C30_Decides(p) /\ m \in C30_Message(p) /\ tx'[p].result \in C30_Returns
     /\ \A p \in Procs :
          (~Running(tx[p]) /\ Running(tx'[p]) /\ tx'[p].delivery)
            => tx'[p].op = "expire" /\ tx'[p].pc = "ex_findReservation"]_vars

\* C30 case: one delivery failed and was requeued, a delivery expired the hold
\* and was acked, and no message is left.
C30_Witness ==
  /\ \E p, q \in Procs :
       /\ tx[p].op = "expire" /\ tx[p].pc = "done"
       /\ tx[p].result = "QueryFailedError: connection terminated"
       /\ tx[q].op = "expire" /\ tx[q].pc = "done" /\ tx[q].result = "expired"
  /\ expirations = {}
  /\ \E r \in ReservationIds : reservations[r].status = "EXPIRED"

\* C31: in batched consumption each message is acknowledged by its own
\* outcome: a message whose expireReservation was fulfilled is acked, one
\* whose expireReservation was rejected is nacked with requeue, also when
\* both kinds are in one batch.
C31_AckPerMessage ==
  \A m \in Messages :
    batchProcessor.decisions[m] # <<>> =>
      batchProcessor.decisions[m] =
        <<IF batchProcessor.outcome[m] = "fulfilled" THEN "ack" ELSE "nack">>

\* Handlers p and q serve confirmPayment calls of the owner for two different
\* reservations of one booking group.
C32_SiblingPayments(p, q) ==
  /\ p # q
  /\ tx[p].op = "confirm" /\ Running(tx[p])
  /\ tx[q].op = "confirm" /\ Running(tx[q])
  /\ tx[p].reservationId \in ReservationIds
  /\ tx[q].reservationId \in ReservationIds
  /\ tx[p].reservationId # tx[q].reservationId
  /\ reservations[tx[p].reservationId].holdId = reservations[tx[q].reservationId].holdId
  /\ tx[p].userId = reservations[tx[p].reservationId].userId
  /\ tx[q].userId = tx[p].userId

\* C32: two concurrent confirmPayment calls of the owner for two different
\* reservations of the same booking group never wait for each other in a
\* cycle.
C32_SiblingPaymentsNeverDeadlock ==
  \A p, q \in Procs : C32_SiblingPayments(p, q) => ~InDeadlock(p)

\* Handler p gets past its locking query in this step and finds its target
\* PENDING.
C33_Tests(p, pc) ==
  /\ tx[p].pc = pc
  /\ CanRun(p)
  /\ tx'[p].pc # pc
  /\ tx[p].reservationId \in ReservationIds
  /\ reservations[tx[p].reservationId].status = "PENDING"

\* C33: for a PENDING reservation the two deadline tests are complementary
\* at every reading of the clock. confirmPayment passes its test exactly when
\* now <= expiresAt, expireReservation acts exactly when now > expiresAt, so
\* at one reading of the clock exactly one of the two tests lets its
\* operation through.
C33_DeadlineTestsComplementary ==
  [][/\ \A r \in ReservationIds :
          ConfirmTooLate(now, reservations[r].expiresAt)
            = ~ExpireTooEarly(now, reservations[r].expiresAt)
     /\ \A p \in Procs :
          (C33_Tests(p, "cp_findReservation")
             /\ FindsReservation(tx[p].reservationId, tx[p].userId)) =>
            IF now <= reservations[tx[p].reservationId].expiresAt
            THEN tx'[p].pc = "cp_findRelated"
            ELSE tx'[p].result = "BadRequestException: Reservation has expired"
     /\ \A p \in Procs :
          C33_Tests(p, "ex_findReservation") =>
            IF now > reservations[tx[p].reservationId].expiresAt
            THEN tx'[p].pc = "ex_commit"
            ELSE tx'[p].result = "skipped: too early"]_vars

\* C33 case: at the very instant of the deadline of a PENDING reservation an
\* expiration has been skipped as too early and a payment has passed its
\* deadline test.
C33_Witness ==
  \E p, q \in Procs :
    /\ tx[p].op = "expire" /\ tx[p].result = "skipped: too early"
    /\ tx[q].op = "confirm" /\ tx[q].pc = "cp_findRelated"
    /\ reservations[tx[q].reservationId].status = "PENDING"
    /\ reservations[tx[q].reservationId].expiresAt = now

\* The reservations that get their message in this step.
C34_Scheduled ==
  {m.reservationId : m \in expirations'} \ {m.reservationId : m \in expirations}

\* The messages of reservation r after this step.
C34_MessagesOf(r) == {m \in expirations' : m.reservationId = r}

\* createReservation of handler p returns its holds in this step.
C34_Returns(p) ==
  tx[p].pc = "ch_post" /\ tx'[p].pc = "done" /\ tx'[p].result = "ok"

\* Messages are enqueued by a returning createReservation only and for its
\* own holds only, a call that fails enqueues none, and no reservation ever
\* has two messages.
C34_OnlyTheProducer ==
  /\ C34_Scheduled # {} =>
       \E p \in Procs : C34_Returns(p) /\ C34_Scheduled \subseteq tx[p].created
  /\ \A p \in Procs :
       (tx[p].op = "create" /\ Running(tx[p]) /\ tx'[p].pc = "done" /\ tx'[p].result # "ok")
         => C34_Scheduled = {}
  /\ \A r \in 1..Len(reservations') : Cardinality(C34_MessagesOf(r)) <= 1

\* The holds of a returning createReservation each have their one message,
\* in the wait queue with the TTL of the hold as its delay.
C34_OneEach(p) ==
  \A r \in tx[p].created :
    C34_MessagesOf(r) = {[reservationId |-> r, queue |-> "wait", ttl |-> reservationTtl]}

\* C34 as stated: every createReservation that succeeds enqueues exactly one
\* delayed message per hold it created, with the TTL as delay; a failed one
\* enqueues none and nothing else enqueues expiration messages.
C34_OneMessagePerHold ==
  [][/\ C34_OnlyTheProducer
     /\ \A p \in Procs : C34_Returns(p) => C34_OneEach(p)]_vars

\* C34 amended: as above when the service has its AMQP channel; a service
\* whose channel could not be set up enqueues nothing, and its
\* createReservation succeeds all the same.
C34_OneMessagePerHoldWithChannel ==
  [][/\ C34_OnlyTheProducer
     /\ \A p \in Procs :
          C34_Returns(p) =>
            IF amqpChannel = "open" THEN C34_OneEach(p) ELSE C34_Scheduled = {}]_vars

\* C34 case: a call has held two seats and each hold has its one message,
\* and some other call has failed.
C34_Witness ==
  /\ amqpChannel = "open"
  /\ Len(reservations) = NumSeats
  /\ reservations[1].holdId = reservations[NumSeats].holdId
  /\ \A r \in ReservationIds :
       [reservationId |-> r, queue |-> "wait", ttl |-> reservationTtl] \in expirations
  /\ \E p \in Procs :
       tx[p].op = "create" /\ tx[p].pc = "done" /\ tx[p].result # "ok"

\* C35: events are emitted once per state transition. A payment emits
\* payment.confirmed for each sale it created, which no step has emitted
\* before, and an idempotent repeat emits nothing; every recorded sale gets
\* its event when the payment that created it publishes. An expiration emits
\* reservation.expired, and seat.released with it, only for a reservation for
\* which they were not emitted before, and an expireReservation that skips
\* emits nothing, however often it is invoked.
C35_EventsOncePerTransition ==
  [][/\ \A p \in Procs :
          (tx[p].pc = "cp_post" /\ tx'[p].pc = "done") =>
            /\ tx[p].created # {}
            /\ \A e \in Emitted("payment.confirmed", tx[p].created) :
                 e \notin events /\ e \in events'
            /\ \A e \in events' \ events :
                 e.name = "payment.confirmed" /\ e.id \in tx[p].created
     /\ \A p \in Procs :
          (/\ tx[p].pc \in {"cp_findReservation", "cp_findSale", "cp_findRelated", "cp_commit"}
           /\ tx'[p] # tx[p])
            => events' = events
     /\ \A s \in SaleIds :
          \/ [name |-> "payment.confirmed", id |-> s] \in events
          \/ \E p \in Procs : tx[p].pc = "cp_post" /\ s \in tx[p].created
     /\ \A p \in Procs :
          (tx[p].pc = "ex_post" /\ tx'[p].pc = "done") =>
            /\ [name |-> "reservation.expired", id |-> tx[p].reservationId] \notin events
            /\ [name |-> "reservation.expired", id |-> tx[p].reservationId] \in events'
     /\ \A p \in Procs :
          (tx[p].op = "expire" /\ tx[p].pc # "ex_post" /\ tx'[p] # tx[p])
            => events' = events]_vars

\* C35 case: a payment has been repeated and answered from the existing
\* sale, and the sale has its one payment.confirmed event.
C35_Witness ==
  /\ \E p \in Procs : tx[p].op = "confirm" /\ tx[p].result = "idempotent"
  /\ SaleIds # {}
  /\ \A s \in SaleIds : [name |-> "payment.confirmed", id |-> s] \in events

\* Handlers p and q serve createReservation calls for disjoint sets of seats.
C36_DisjointHolds(p, q) ==
  /\ p # q
  /\ tx[p].op = "create" /\ tx[q].op = "create"
  /\ tx[p].seatNumbers # <<>> /\ tx[q].seatNumbers # <<>>
  /\ Range(tx[p].seatNumbers) \cap Range(tx[q].seatNumbers) = {}

\* C36: two createReservation calls for disjoint sets of AVAILABLE seats never
\* contend. While both are in flight neither waits for a lock the other
\* holds; and when they are the first two calls, so that every seat either
\* asks for was AVAILABLE and is asked for by nobody else, both succeed with
\* a hold on each of their seats.
C36_DisjointHoldsNeverContend ==
  \A p, q \in Procs :
    C36_DisjointHolds(p, q) =>
      /\ (Running(tx[p]) /\ Running(tx[q])) => WaitsFor(p) # q
      /\ (ops = 2 /\ ConcurrentPair(p, q) /\ tx[p].pre /\ tx[q].pre /\ tx[p].pc = "done")
           => /\ tx[p].result = "ok"
              /\ Cardinality(tx[p].created) = Len(tx[p].seatNumbers)

\* C36 case: the first two calls ran concurrently for one seat each, and both
\* have returned their hold.
C36_Witness ==
  \E p, q \in Procs :
    /\ C36_DisjointHolds(p, q)
    /\ ops = 2
    /\ ConcurrentPair(p, q)
    /\ Done(p, "create") /\ Done(q, "create")
    /\ tx[p].result = "ok" /\ tx[q].result = "ok"
    /\ \A s \in Seats : seats[s] = "RESERVED"

\* C37: retryWithBackoff calls the wrapped function at most maxAttempts
\* times; it returns at the first call that succeeds, every call before it
\* having failed, and does nothing more; when it throws, it throws the error
\* of the last call, and it throws after maxAttempts failed calls at the
\* latest; and a call of it ends when the function and the timer do.
C37_RetryBounded ==
  /\ [](/\ retry.calls <= retry.opts.maxAttempts
        /\ retry.attempt <= retry.opts.maxAttempts
        /\ retry.pc = "returned" => retry.calls = Len(retry.errors) + 1
        /\ retry.pc = "thrown" =>
             /\ retry.calls = Len(retry.errors)
             /\ retry.thrown = retry.errors[Len(retry.errors)]
        /\ Len(retry.errors) = retry.opts.maxAttempts => retry.pc = "thrown")
  /\ [][retry.pc \in {"returned", "thrown"} => retry' = retry]_vars
  /\ (retry.pc # "idle") ~> (retry.pc \in {"returned", "thrown"})

\* C37 case: the most attempts were allowed, all the calls failed, with
\* different errors and the last of them has been thrown.
C37_Witness ==
  /\ retry.pc = "thrown"
  /\ retry.opts.maxAttempts = MaxAttempts
  /\ retry.calls = MaxAttempts
  /\ retry.errors[1] # retry.errors[MaxAttempts]
  /\ retry.thrown = retry.errors[MaxAttempts]

\* The wait that is computed after the failed attempt k under the options.
C38_Wait(opts, k) == DelayMs(opts, k)

\* The options that keep the default delays.
C38_DefaultDelays(opts) ==
  /\ opts.initialDelayMs = defaultOptions.initialDelayMs
  /\ opts.backoffMultiplier = defaultOptions.backoffMultiplier
  /\ opts.maxDelayMs = defaultOptions.maxDelayMs

\* The part of C38 that does not depend on the default values: the wait after
\* the k-th failed attempt is min(initialDelayMs * backoffMultiplier^(k-1),
\* maxDelayMs), never less than the wait before it, never more than the cap.
C38_DelayFormula ==
  [][(retry.pc = "calling" /\ retry'.pc = "sleeping") =>
       /\ retry'.delayMs = C38_Wait(retry.opts, retry.attempt)
       /\ retry'.delayMs >= retry.delayMs
       /\ retry'.delayMs <= retry.opts.maxDelayMs]_vars

\* C38: the wait after the k-th failed attempt is
\* min(initialDelayMs * backoffMultiplier^(k-1), maxDelayMs); the waits never
\* decrease and never exceed the cap; and with the default delays they start
\* at 100 ms, double each time and are capped at 2000 ms.
C38_BackoffDelays ==
  [][(retry.pc = "calling" /\ retry'.pc = "sleeping") =>
       LET k == retry.attempt
           opts == retry.opts
       IN /\ retry'.delayMs =
               Min(opts.initialDelayMs * Pow(opts.backoffMultiplier, k - 1), opts.maxDelayMs)
          /\ retry'.delayMs >= retry.delayMs
          /\ retry'.delayMs <= opts.maxDelayMs
          /\ C38_DefaultDelays(opts) =>
               retry'.delayMs = Min(100 * Pow(2, k - 1), 2000)]_vars

\* The messages that were added to the BatchProcessor.
C39_Added == 1..batchProcessor.added

\* The places a message can be in: the buffer, a batch that is being
\* processed, or decided (acked or nacked).
C39_Places(m) ==
  (IF m \in Range(batchProcessor.batch) THEN {"buffer"} ELSE {}) \cup
  (IF \E b \in batchProcessor.inFlight : m \in Range(b.items) THEN {"processing"} ELSE {}) \cup
  (IF batchProcessor.decisions[m] # <<>> THEN {"decided"} ELSE {})

\* At most one batch is being processed, and every added message is in
\* exactly one place, was handed to processFn in at most one batch, not at all
\* while it is in the buffer, and has at most one ack or nack, none before its
\* batch settled.
C39_NoLossNoDuplicate ==
  /\ Cardinality(batchProcessor.inFlight) <= 1
  /\ batchProcessor.inFlight # {} => batchProcessor.processing
  /\ \A m \in C39_Added :
       /\ Cardinality(C39_Places(m)) = 1
       /\ Cardinality(batchProcessor.batches[m]) <= 1
       /\ Len(batchProcessor.decisions[m]) <= 1
       /\ "buffer" \in C39_Places(m) <=> batchProcessor.batches[m] = {}
       /\ batchProcessor.decisions[m] # <<>> =>
            batchProcessor.decisions[m][1] \in {"ack", "nack"}

\* Every added message was processed in one batch and has one ack or nack.
C39_AllDecided ==
  /\ batchProcessor.batch = <<>>
  /\ batchProcessor.inFlight = {}
  /\ \A m \in C39_Added :
       /\ Cardinality(batchProcessor.batches[m]) = 1
       /\ Len(batchProcessor.decisions[m]) = 1

\* C39: while the flush timer keeps firing, every message added to the
\* BatchProcessor is eventually part of exactly one processed batch and then
\* gets exactly one ack or nack: none is dropped, processed in two batches or
\* left in the buffer for ever, messages added while a batch is being
\* processed included, and at most one batch is processed at a time.
C39_EveryMessageDecidedOnce ==
  /\ []C39_NoLossNoDuplicate
  /\ \A m \in Messages :
       (m \in C39_Added) ~> (Len(batchProcessor.decisions[m]) = 1)
  /\ <>[]C39_AllDecided

\* C39 case: all the messages were added and decided, and one batch held more
\* messages than batchSize, which only happens when messages are added while
\* a batch is being processed.
C39_Witness ==
  /\ batchProcessor.added = MaxMessages
  /\ C39_AllDecided
  /\ \E k \in 1..batchProcessor.batchNumber :
       Cardinality({m \in Messages : batchProcessor.batches[m] = {k}}) > BatchSize

\* C40: when stop() has returned, the timer is cancelled, the buffer is empty
\* and every message that was added before the call has been acked or nacked,
\* also when stop() was called while a batch was being processed.
C40_StopFlushesEverything ==
  [][(batchProcessor.stop # "returned" /\ batchProcessor'.stop = "returned") =>
       /\ ~batchProcessor'.flushTimer
       /\ batchProcessor'.batch = <<>>
       /\ \A m \in 1..batchProcessor'.addedBeforeStop :
            Len(batchProcessor'.decisions[m]) = 1]_vars

\* The part of C40 that holds: once stop() was called the timer is cancelled,
\* and a stop() that was called while no batch was being processed returns
\* with every message added before it decided.
C40_StopWhileIdle ==
  [][/\ batchProcessor.stop # "no" => ~batchProcessor.flushTimer
     /\ (batchProcessor.stop = "no" /\ batchProcessor'.stop # "no" /\ ~batchProcessor.processing) =>
          batchProcessor'.batch = <<>>
     /\ (batchProcessor.stop = "awaiting" /\ batchProcessor'.stop = "returned") =>
          \A m \in 1..batchProcessor.addedBeforeStop :
            Len(batchProcessor'.decisions[m]) = 1]_vars

====
